---- MODULE Spec2Model ----
(***************************************************************************)
(* Track store (src/src/tracking_manager.py, class TrackingManager),       *)
(* behaviour engine (src/src/behavior_analyzer.py, class BehaviorAnalyzer) *)
(* and configuration reload (src/src/config_manager.py, class              *)
(* ConfigManager, with its listener in src/src/pipeline_manager.py) of the *)
(* DeepStream demo, as a state machine.                                    *)
(*                                                                         *)
(* Units.  Time is in seconds and the wall clock (time.time()) advances in *)
(* steps of Tick seconds; calls made between two steps read the same       *)
(* clock value.  Confidence is in tenths (0.5 is 5).  Pixel coordinates    *)
(* are integers and the boxes fed in have even widths and heights, so that *)
(* left + width / 2 is exact.                                              *)
(*                                                                         *)
(* Scaling.  The time thresholds keep the values of the source.  The       *)
(* sample-count limits of the source (30 and 10 samples for the static and *)
(* the moving window, 100 samples of history, 1000 retained events) are    *)
(* scaled down, keeping their order; they are the bounds of the model.     *)
(***************************************************************************)
EXTENDS Integers, Sequences, FiniteSets, TLC

(***************************************************************************)
(* Bounds of the model.                                                    *)
(***************************************************************************)
\* Stand-in for the Unix time at start-up: larger than every threshold.
Epoch == 100
\* Clock granularity in seconds.
Tick == 16
\* Number of clock steps explored.
MaxTicks == 2
\* tracking_manager.py:39 max_track_history = 100, scaled.
MaxTrackHistory == 5
\* behavior_analyzer.py:139 min_frames=30, scaled.
MinFramesStatic == 3
\* behavior_analyzer.py:175 min_frames=10, scaled.
MinFramesMoving == 2
\* behavior_analyzer.py:324 max_events = 1000, scaled.
MaxEvents == 2
\* Number of registered callbacks explored.
MaxCallbacks == 2
\* Number of frames of a run that may hold the object that then leaves.
ObservedTicks == 4

\* Number of dispatch_event calls explored.
MaxDispatched == 3
\* Number of file modifications the observer thread may have in hand.
MaxModifiedEvents == 2
\* Number of change listeners registered, the one of the pipeline included.
MaxListeners == 3
\* Largest max_reconnect_attempts explored; one attempt more is explored
\* when attempts are unlimited.
MaxAttempts == 2
\* frame_saver.py:58 Queue(maxsize=100), scaled.
MaxFrameQueue == 2
\* Largest max_frames_per_hour explored.
MaxFramesPerHour == 2

(***************************************************************************)
(* Constants of the program.                                               *)
(***************************************************************************)
TrackTimeoutSeconds == 30
StaticThresholdSeconds == 30
PositionTolerancePixels == 10
DebounceSeconds == 2
\* 0.5, in tenths.
MinConfidence == 5
\* ConfigFileWatcher.debounce_seconds.
WatcherDebounceSeconds == 1
\* _check_stream_health: no frame for more than 30 seconds.
FrameTimeoutSeconds == 30
\* _should_save_frame: the hourly counter lasts 3600 seconds.
HourSeconds == 3600
\* FrameSavingConfig.max_frames_per_hour.
DefaultFramesPerHour == 3600
InactiveGraceSeconds == 10
\* cleanup_old_history(max_age_seconds=300)
DefaultMaxAgeSeconds == 300

Ids == {1, 2}

(***************************************************************************)
(* Generic helpers.                                                        *)
(***************************************************************************)
Max(a, b) == IF a >= b THEN a ELSE b

Min(a, b) == IF a <= b THEN a ELSE b

\* s[-n:] of Python for n > 0.
LastN(s, n) == IF Len(s) <= n THEN s ELSE SubSeq(s, Len(s) - n + 1, Len(s))

\* Python dict as a TLA+ function: d[k] = v, d.get(k, default), d.pop(k, None).
DictSet(d, k, v) == [x \in (DOMAIN d) \cup {k} |-> IF x = k THEN v ELSE d[x]]

DictGet(d, k, default) == IF k \in DOMAIN d THEN d[k] ELSE default

DictPop(d, k) == [x \in (DOMAIN d) \ {k} |-> d[x]]

EmptyDict == [x \in {} |-> 0]

\* {**a, **b} of Python.
DictMerge(a, b) ==
    [k \in (DOMAIN a) \cup (DOMAIN b) |-> IF k \in DOMAIN b THEN b[k] ELSE a[k]]

\* None of Python, where the other values are records.
None == [none |-> TRUE]

(***************************************************************************)
(* State.                                                                  *)
(***************************************************************************)
VARIABLES
    now,                     \* time.time()
    active_tracks,           \* TrackingManager.active_tracks, in key order
    track_history,           \* TrackingManager.track_history
    lost_tracks,             \* TrackingManager.lost_tracks
    last_observed,           \* id -> time of its last detection (history variable)
    steady,                  \* ids detected so far only with confidence >=
                             \* min_confidence and gaps <= track_timeout_seconds
                             \* (history variable)
    tracked_objects,         \* BehaviorAnalyzer.tracked_objects
    recent_events,           \* BehaviorAnalyzer.recent_events
    event_callbacks,         \* BehaviorAnalyzer.event_callbacks: what each does
    last_appearance_events,  \* BehaviorAnalyzer.last_appearance_events
    last_static_events,      \* BehaviorAnalyzer.last_static_events
    last_moving_events,      \* BehaviorAnalyzer.last_moving_events
    emitted,                 \* events emitted by the step just taken
    invoked,                 \* per callback, the events that step passed to it
    last_emit,               \* id -> event type -> time of the last emission
                             \* (history variable)
    call_parity,             \* number of calls made so far, modulo 2 (history
                             \* variable): a call is a step even when it
                             \* changes nothing else
    config_file,             \* what the YAML file at config_file_path holds
    config,                  \* ConfigManager.config
    behavior_config,         \* BehaviorAnalyzer.config
    last_modified_time,      \* ConfigFileWatcher.last_modified_time
    modified_events,         \* the FileModifiedEvents for the file that the
                             \* observer thread has not handled yet
    change_callbacks,        \* ConfigManager.change_callbacks: what each does
    notified,                \* the calls of change listeners made by the step
                             \* just taken, in order: which listener, and the
                             \* configuration passed to it
    loaded,                  \* what the _load_config call of the step just
                             \* taken returned
    query,                   \* what the queries made by the step just taken
                             \* returned
    frame_call,              \* the event of the dispatch_event call the frame
                             \* thread is in, None outside such a call
    event_queue,             \* EventDispatcher.event_queue, oldest first
    unfinished_tasks,        \* event_queue.unfinished_tasks
    worker_pc,               \* where the worker thread is in _worker_loop
    worker_event,            \* the event the worker thread is processing
    stop_worker,             \* EventDispatcher.stop_worker
    shutdown_pc,             \* where the thread that called shutdown() is
    delivery,                \* which of http_delivery, mqtt_delivery are set
    stats,                   \* EventDispatcher.stats
    processed,               \* the events passed to _process_event, in order
                             \* (history variable)
    dispatched,              \* the events passed to dispatch_event, in order
                             \* (history variable)
    max_reconnect_attempts,  \* RTSPStreamManager.max_reconnect_attempts
    is_connected,            \* RTSPStreamManager.is_connected
    reconnect_count,         \* RTSPStreamManager.reconnect_count
    last_frame_time,         \* RTSPStreamManager.last_frame_time, -1 for None
    stop_monitoring,         \* RTSPStreamManager.stop_monitoring
    monitor_pc,              \* where the monitor thread is in _monitor_stream
    attempts,                \* the _attempt_connection calls made so far
                             \* (history variable)
    max_frames_per_hour,     \* FrameSaver.max_frames_per_hour
    detection_only_mode,     \* FrameSaver.detection_only_mode
    frame_queue,             \* the number of frames on FrameSaver.frame_queue
    saves_this_hour,         \* FrameSaver.saves_this_hour
    hour_start,              \* FrameSaver.hour_start
    frames_saved             \* the frames saved since the hourly counter was
                             \* last reset (history variable)

tmvars == <<active_tracks, track_history, lost_tracks, last_observed, steady>>

bavars == <<tracked_objects, recent_events, last_appearance_events,
            last_static_events, last_moving_events, last_emit>>

\* Only analyze_frame emits events.
NothingEmitted(callbacks) ==
    /\ emitted' = <<>>
    /\ invoked' = [i \in 1..Len(callbacks) |-> <<>>]

\* Every call counts.
CallMade == call_parity' = 1 - call_parity

cfgvars == <<config_file, config, behavior_config, last_modified_time,
             modified_events, change_callbacks>>

watchvars == <<last_modified_time, modified_events, change_callbacks>>

\* Only _load_config notifies change listeners, and only a query returns
\* query results.
NothingNotified == notified' = <<>> /\ loaded' = <<>> /\ query' = None

dispvars == <<frame_call, event_queue, unfinished_tasks, worker_pc, worker_event,
              stop_worker, shutdown_pc, delivery, stats, processed, dispatched>>

streamvars == <<max_reconnect_attempts, is_connected, reconnect_count,
                last_frame_time, stop_monitoring, monitor_pc, attempts>>

savervars == <<max_frames_per_hour, detection_only_mode, frame_queue,
               saves_this_hour, hour_start, frames_saved>>

vars == <<now, tmvars, bavars, event_callbacks, emitted, invoked, call_parity,
          cfgvars, notified, loaded, query, dispvars, streamvars, savervars>>

(***************************************************************************)
(* TrackingManager.  active_tracks is an insertion-ordered dict: a         *)
(* sequence of track_info records, one per key, in key order.              *)
(***************************************************************************)
TrackKeys(tracks) == {tracks[i].tracking_id : i \in 1..Len(tracks)}

KeyOrder(tracks) == [i \in 1..Len(tracks) |-> tracks[i].tracking_id]

HasTrack(tracks, id) == id \in TrackKeys(tracks)

TrackOf(tracks, id) == tracks[CHOOSE i \in 1..Len(tracks) : tracks[i].tracking_id = id]

\* active_tracks[id] = info for a new key, active_tracks[id].update(info) for
\* an existing one: the key keeps its place.
PutTrack(tracks, id, info) ==
    IF HasTrack(tracks, id)
    THEN [i \in 1..Len(tracks) |-> IF tracks[i].tracking_id = id THEN info ELSE tracks[i]]
    ELSE Append(tracks, info)

DelTrack(tracks, id) == SelectSeq(tracks, LAMBDA t : t.tracking_id # id)

\* The track_info dict update_tracks builds from one NvDsObjectMeta.
TrackInfo(obj_meta, current_time, frame_num) ==
    [tracking_id  |-> obj_meta.object_id,
     class_id     |-> obj_meta.class_id,
     confidence   |-> obj_meta.confidence,
     bbox         |-> [left |-> obj_meta.left, top |-> obj_meta.top,
                       width |-> obj_meta.width, height |-> obj_meta.height],
     center       |-> [x |-> obj_meta.left + obj_meta.width \div 2,
                       y |-> obj_meta.top + obj_meta.height \div 2],
     timestamp    |-> current_time,
     frame_number |-> frame_num]

Position(track_info) ==
    [x |-> track_info.center.x, y |-> track_info.center.y,
     timestamp |-> track_info.timestamp, frame_number |-> track_info.frame_number]

\* A cap that keeps the oldest samples instead: history[:max_track_history].
LimitHistoryKeepsOldest(history) ==
    IF Len(history) > MaxTrackHistory THEN SubSeq(history, 1, MaxTrackHistory) ELSE history

\* history[-max_track_history:] once the history is longer than the cap.
LimitHistory(history) ==
    IF Len(history) > MaxTrackHistory THEN LastN(history, MaxTrackHistory) ELSE history

\* The history a track starts from when its id is not in active_tracks.
NewTrackHistory(tm, tracking_id) == <<>>

\* tm is [active_tracks, track_history, lost_tracks].
UpdateTrack(tm, tracking_id, track_info) ==
    LET isNew   == ~HasTrack(tm.active_tracks, tracking_id)
        base    == IF isNew THEN NewTrackHistory(tm, tracking_id)
                   ELSE tm.track_history[tracking_id]
        history == LimitHistory(Append(base, Position(track_info)))
    IN  [active_tracks |-> PutTrack(tm.active_tracks, tracking_id, track_info),
         track_history |-> DictSet(tm.track_history, tracking_id, history),
         lost_tracks   |-> IF isNew THEN tm.lost_tracks \ {tracking_id}
                           ELSE tm.lost_tracks]

\* Whether update_tracks ingests the object record.
AcceptsObject(obj_meta) == TRUE

\* The loop of update_tracks over frame_meta.obj_meta_list, from index i on.
RECURSIVE ProcessObjects(_, _, _, _, _)
ProcessObjects(tm, objs, i, current_time, frame_num) ==
    IF i > Len(objs) THEN tm
    ELSE ProcessObjects(
             IF AcceptsObject(objs[i])
             THEN UpdateTrack(tm, objs[i].object_id,
                              TrackInfo(objs[i], current_time, frame_num))
             ELSE tm,
             objs, i + 1, current_time, frame_num)

\* current_track_ids of update_tracks.
CurrentTrackIds(objs) == {objs[i].object_id : i \in 1..Len(objs)}

\* A timeout test that uses the wrong threshold (the analyzer's grace period).
IsTimedOutAfterGrace(track_info, current_time) ==
    current_time - track_info.timestamp > InactiveGraceSeconds

IsTimedOut(track_info, current_time) ==
    current_time - track_info.timestamp > TrackTimeoutSeconds

CheckLostTracks(tm, current_track_ids, current_time) ==
    LET lost_track_ids == TrackKeys(tm.active_tracks) \ current_track_ids
        timed_out == {id \in lost_track_ids :
                         IsTimedOut(TrackOf(tm.active_tracks, id), current_time)}
    IN  [active_tracks |-> SelectSeq(tm.active_tracks,
                                     LAMBDA t : t.tracking_id \notin timed_out),
         track_history |-> tm.track_history,
         lost_tracks   |-> tm.lost_tracks \cup timed_out]

TM == [active_tracks |-> active_tracks, track_history |-> track_history,
       lost_tracks |-> lost_tracks]

\* update_tracks(frame_meta) with time.time() returning current_time.
UpdateTracksAt(frame_meta, current_time) ==
    LET objs == frame_meta.obj_meta_list
        tm1  == ProcessObjects(TM, objs, 1, current_time, frame_meta.frame_num)
    IN  \E tm2 \in {CheckLostTracks(tm1, CurrentTrackIds(objs), current_time)} :
        /\ now' = current_time
        /\ UNCHANGED <<bavars, event_callbacks, cfgvars, dispvars, streamvars, savervars>>
        /\ NothingNotified
        /\ active_tracks' = tm2.active_tracks
        /\ track_history' = tm2.track_history
        /\ lost_tracks' = tm2.lost_tracks
        /\ last_observed' = [id \in (DOMAIN last_observed) \cup CurrentTrackIds(objs) |->
                                IF id \in CurrentTrackIds(objs) THEN current_time
                                ELSE last_observed[id]]
        /\ steady' = (steady \cup (CurrentTrackIds(objs) \ DOMAIN last_observed))
                        \ {id \in CurrentTrackIds(objs) :
                               \/ \E i \in 1..Len(objs) :
                                      /\ objs[i].object_id = id
                                      /\ objs[i].confidence < MinConfidence
                               \/ /\ id \in DOMAIN last_observed
                                  /\ current_time - last_observed[id] > TrackTimeoutSeconds}
        /\ NothingEmitted(event_callbacks)
        /\ CallMade

UpdateTracks(frame_meta) == UpdateTracksAt(frame_meta, now)

\* A staleness test that forgets whether the track is active.
ShouldRemoveIfOld(tm, tracking_id, current_time, max_age_seconds) ==
    LET history == tm.track_history[tracking_id]
    IN  /\ Len(history) > 0
        /\ current_time - history[Len(history)].timestamp > max_age_seconds

\* The test of cleanup_old_history on one entry of track_history: an empty
\* history is passed over.
ShouldRemove(tm, tracking_id, current_time, max_age_seconds) ==
    LET history == tm.track_history[tracking_id]
    IN  /\ Len(history) > 0
        /\ ~HasTrack(tm.active_tracks, tracking_id)
        /\ current_time - history[Len(history)].timestamp > max_age_seconds

CleanupOldHistory(tm, current_time, max_age_seconds) ==
    LET tracks_to_remove ==
            {id \in DOMAIN tm.track_history :
                 ShouldRemove(tm, id, current_time, max_age_seconds)}
    IN  [active_tracks |-> tm.active_tracks,
         track_history |-> [id \in (DOMAIN tm.track_history) \ tracks_to_remove |->
                               tm.track_history[id]],
         lost_tracks   |-> tm.lost_tracks \ tracks_to_remove]

\* cleanup_old_history(max_age_seconds).
CleanupHistory(max_age_seconds) ==
    LET tm1 == CleanupOldHistory(TM, now, max_age_seconds)
    IN  /\ active_tracks' = tm1.active_tracks
        /\ track_history' = tm1.track_history
        /\ lost_tracks' = tm1.lost_tracks
        /\ NothingEmitted(event_callbacks)
        /\ NothingNotified
        /\ CallMade
        /\ UNCHANGED <<now, last_observed, steady, bavars, event_callbacks,
                       cfgvars, dispvars, streamvars, savervars>>

get_active_tracks == active_tracks

\* self.active_tracks.get(tracking_id)
get_track_info(tracking_id) ==
    IF HasTrack(active_tracks, tracking_id) THEN TrackOf(active_tracks, tracking_id)
    ELSE None

\* self.track_history.get(tracking_id, [])
get_track_history(tracking_id) == DictGet(track_history, tracking_id, <<>>)

SqDist(p, q) == (p.x - q.x) * (p.x - q.x) + (p.y - q.y) * (p.y - q.y)

\* max_distance of is_track_static, squared (the distances are compared with
\* the threshold only, and both are non-negative).
\* A maximum over the distances between consecutive samples instead.
RECURSIVE MaxSqStep(_, _, _)
MaxSqStep(recent_history, i, acc) ==
    IF i > Len(recent_history) THEN acc
    ELSE MaxSqStep(recent_history, i + 1,
                   Max(acc, SqDist(recent_history[i], recent_history[i - 1])))

RECURSIVE MaxSqDistance(_, _, _)
MaxSqDistance(recent_history, i, acc) ==
    IF i > Len(recent_history) THEN acc
    ELSE MaxSqDistance(recent_history, i + 1,
                       Max(acc, SqDist(recent_history[i], recent_history[1])))

is_track_static(tracking_id, threshold_pixels, min_frames) ==
    IF tracking_id \notin DOMAIN track_history THEN FALSE
    ELSE LET history == track_history[tracking_id]
         IN  IF Len(history) < min_frames THEN FALSE
             ELSE LET recent_history == LastN(history, min_frames)
                  IN  MaxSqDistance(recent_history, 2, 0)
                          <= threshold_pixels * threshold_pixels

\* A duration measured from the oldest retained sample to the current time.
DurationUntilNow(tracking_id) ==
    IF tracking_id \notin DOMAIN track_history THEN -1
    ELSE LET history == track_history[tracking_id]
         IN  IF Len(history) < 2 THEN 0 ELSE now - history[1].timestamp

\* None is modelled as -1 (durations are never negative for a monotonic clock).
get_track_duration(tracking_id) ==
    IF tracking_id \notin DOMAIN track_history THEN -1
    ELSE LET history == track_history[tracking_id]
         IN  IF Len(history) < 2 THEN 0
             ELSE history[Len(history)].timestamp - history[1].timestamp

\* A get_track_history that uses setdefault.
StoreAfterSetdefault(tm, tracking_id) ==
    [tm EXCEPT !.track_history =
                   IF tracking_id \in DOMAIN @ THEN @ ELSE DictSet(@, tracking_id, <<>>)]

\* The store after get_track_info, get_track_duration, is_track_static and
\* get_track_history on tracking_id: they read it with dict.get, membership
\* tests and indexing, and assign nothing.
StoreAfterQueries(tm, tracking_id) == tm

\* The four queries on one id, in one step.
QueryTrack(tracking_id, threshold_pixels, min_frames) ==
    LET tm1 == StoreAfterQueries(TM, tracking_id)
    IN  /\ query' = [tracking_id      |-> tracking_id,
                     threshold_pixels |-> threshold_pixels,
                     min_frames       |-> min_frames,
                     track_info       |-> get_track_info(tracking_id),
                     track_duration   |-> get_track_duration(tracking_id),
                     track_static     |-> is_track_static(tracking_id, threshold_pixels,
                                                          min_frames),
                     track_history    |-> get_track_history(tracking_id)]
        /\ active_tracks' = tm1.active_tracks
        /\ track_history' = tm1.track_history
        /\ lost_tracks' = tm1.lost_tracks
        /\ notified' = <<>>
        /\ loaded' = <<>>
        /\ NothingEmitted(event_callbacks)
        /\ CallMade
        /\ UNCHANGED <<now, last_observed, steady, bavars, event_callbacks, cfgvars, dispvars, streamvars, savervars>>

(***************************************************************************)
(* ConfigManager (src/src/config_manager.py) and the change listener of    *)
(* the pipeline.  Of the configuration only the behavior section is        *)
(* modelled.  The file at config_file_path is [kind |-> "missing"], [kind  *)
(* |-> "unparsable"] (yaml.safe_load raises) or [kind |-> "yaml", data |->  *)
(* d], d being the mapping the file holds.                                 *)
(***************************************************************************)
\* The defaults of the pydantic model BehaviorConfig.
BehaviorDefaults ==
    [static_threshold_seconds  |-> StaticThresholdSeconds,
     position_tolerance_pixels |-> PositionTolerancePixels,
     debounce_seconds          |-> DebounceSeconds,
     min_confidence            |-> MinConfidence]

\* A validation that checks only that the section is there.
ValidatesAnything(behavior) == TRUE

\* The Field(ge=, le=) constraints of BehaviorConfig; debounce_seconds has
\* ge=0.1, which for whole seconds is ge 1, and min_confidence is in tenths.
Validates(behavior) ==
    /\ behavior.static_threshold_seconds >= 1
    /\ behavior.static_threshold_seconds <= 300
    /\ behavior.position_tolerance_pixels >= 1
    /\ behavior.position_tolerance_pixels <= 100
    /\ behavior.debounce_seconds >= 1
    /\ behavior.debounce_seconds <= 30
    /\ behavior.min_confidence >= 0
    /\ behavior.min_confidence <= 10

\* AppConfig(**config_data): keys left out take their defaults.
AppConfig(config_data) ==
    [behavior |-> DictMerge(BehaviorDefaults, DictGet(config_data, "behavior", EmptyDict))]

\* _load_config on the file, with old_config in self.config.  Result: the
\* value returned, self.config afterwards, and whether the change listeners
\* are notified.
LoadConfig(old_config, file) ==
    LET failed == [ok |-> FALSE, config |-> old_config, notify |-> FALSE]
    IN  IF file.kind # "yaml" THEN failed
        ELSE IF ~Validates(AppConfig(file.data).behavior) THEN failed
        ELSE [ok |-> TRUE, config |-> AppConfig(file.data),
              notify |-> old_config # None]

get_behavior_config(cfg) == IF cfg = None THEN EmptyDict ELSE cfg.behavior

get_full_config(cfg) == IF cfg = None THEN EmptyDict ELSE cfg

\* BehaviorAnalyzer.__init__: self.config = {**default_config, **config}.
default_config ==
    [static_threshold_seconds  |-> StaticThresholdSeconds,
     position_tolerance_pixels |-> PositionTolerancePixels,
     debounce_seconds          |-> DebounceSeconds,
     min_confidence            |-> MinConfidence]

AnalyzerConfig(cfg) == DictMerge(default_config, cfg)

\* PipelineManager._on_config_changed, the one change listener: what it
\* leaves in BehaviorAnalyzer.config.  It calls
\* self.behavior_analyzer.update_config(behavior_config); BehaviorAnalyzer
\* defines no update_config, so the call raises AttributeError, which the
\* except clause of the listener logs.
OnConfigChanged(analyzer_config, new_behavior_config) == analyzer_config

\* Whether the loop of _notify_change_listeners goes on to the next
\* listener after calling this one: each call sits in its own try/except
\* Exception, so it does whether the listener returns or raises.
\* "pipeline" is PipelineManager._on_config_changed, which returns.
NotifyContinues(callback) == callback \in {"pipeline", "returns", "raises"}

\* The loop of _notify_change_listeners from listener i on.  Result: the
\* calls made, in order.
RECURSIVE NotifyChangeListeners(_, _, _, _)
NotifyChangeListeners(callbacks, calls, new_config, i) ==
    IF i > Len(callbacks) THEN calls
    ELSE LET called == Append(calls, [listener |-> i, config |-> new_config])
         IN  IF NotifyContinues(callbacks[i])
             THEN NotifyChangeListeners(callbacks, called, new_config, i + 1)
             ELSE called

\* ConfigManager._load_config on the file as it is now: self.config, the
\* value returned and the listeners notified.  The listener of
\* PipelineManager is registered right after construction, so it is the
\* first one and is called whenever any is.
LoadConfigAndNotify ==
    LET load == LoadConfig(config, config_file)
    IN  /\ config' = load.config
        /\ loaded' = <<load.ok>>
        /\ notified' = IF load.notify
                       THEN NotifyChangeListeners(change_callbacks, <<>>,
                                                  load.config, 1)
                       ELSE <<>>
        /\ behavior_config' =
               IF load.notify
               THEN OnConfigChanged(behavior_config, get_behavior_config(load.config))
               ELSE behavior_config

\* _on_config_file_modified of ConfigManager, reload_config of
\* PipelineManager: _load_config, and the listeners when they are notified.
ReloadConfig ==
    /\ LoadConfigAndNotify
    /\ query' = None
    /\ CallMade
    /\ NothingEmitted(event_callbacks)
    /\ UNCHANGED <<now, tmvars, bavars, event_callbacks, config_file,
                   watchvars, dispvars, streamvars, savervars>>

(***************************************************************************)
(* BehaviorAnalyzer.  A BehaviorEvent is a record; its event_id (a fresh   *)
(* uuid4 string that nothing reads) is left out.  The state analyze_frame  *)
(* works on is threaded through its steps as a record ba.                  *)
(***************************************************************************)
\* coco_class_names of _get_class_name: the name of class id i is entry i + 1.
CocoClassNames ==
    <<"person", "bicycle", "car", "motorcycle", "airplane", "bus", "train",
      "truck", "boat", "traffic light", "fire hydrant", "stop sign",
      "parking meter", "bench", "bird", "cat", "dog", "horse", "sheep",
      "cow", "elephant", "bear", "zebra", "giraffe", "backpack",
      "umbrella", "handbag", "tie", "suitcase", "frisbee", "skis",
      "snowboard", "sports ball", "kite", "baseball bat", "baseball glove",
      "skateboard", "surfboard", "tennis racket", "bottle", "wine glass",
      "cup", "fork", "knife", "spoon", "bowl", "banana", "apple",
      "sandwich", "orange", "broccoli", "carrot", "hot dog", "pizza",
      "donut", "cake", "chair", "couch", "potted plant", "bed",
      "dining table", "toilet", "tv", "laptop", "mouse", "remote",
      "keyboard", "cell phone", "microwave", "oven", "toaster", "sink",
      "refrigerator", "book", "clock", "vase", "scissors", "teddy bear",
      "hair drier", "toothbrush">>

\* _get_class_name: the table entry, or the placeholder f"unknown_class_{id}".
ClassName(class_id) ==
    IF class_id \in 0..(Len(CocoClassNames) - 1)
    THEN CocoClassNames[class_id + 1]
    ELSE <<"unknown_class_", class_id>>

\* datetime.fromtimestamp(timestamp).isoformat(): a string, one per instant.
IsoFormat(timestamp) == <<"isoformat", timestamp>>

\* An appearance event that reports the corner of the box as the position.
CreateAppearanceEventAtCorner(tracking_id, track_info, timestamp) ==
    [event_type  |-> "object_appeared",
     timestamp   |-> IsoFormat(timestamp),
     tracking_id |-> tracking_id,
     class_name  |-> ClassName(track_info.class_id),
     position    |-> [x |-> track_info.bbox.left, y |-> track_info.bbox.top],
     metadata    |-> [bbox |-> track_info.bbox,
                      frame_number |-> track_info.frame_number],
     confidence  |-> track_info.confidence]

CreateAppearanceEvent(tracking_id, track_info, timestamp) ==
    [event_type  |-> "object_appeared",
     timestamp   |-> IsoFormat(timestamp),
     tracking_id |-> tracking_id,
     class_name  |-> ClassName(track_info.class_id),
     position    |-> [x |-> track_info.center.x, y |-> track_info.center.y],
     metadata    |-> [bbox |-> track_info.bbox,
                      frame_number |-> track_info.frame_number],
     confidence  |-> track_info.confidence]

CreateStaticEvent(tracking_id, track_info, timestamp, duration) ==
    [event_type  |-> "object_static",
     timestamp   |-> IsoFormat(timestamp),
     tracking_id |-> tracking_id,
     class_name  |-> ClassName(track_info.class_id),
     position    |-> [x |-> track_info.center.x, y |-> track_info.center.y],
     metadata    |-> [duration |-> duration,
                      bbox |-> track_info.bbox,
                      frame_number |-> track_info.frame_number],
     confidence  |-> track_info.confidence]

\* A moving event that also reports the track's duration.
CreateMovingEventWithDuration(tracking_id, track_info, timestamp) ==
    [event_type  |-> "object_moving",
     timestamp   |-> IsoFormat(timestamp),
     tracking_id |-> tracking_id,
     class_name  |-> ClassName(track_info.class_id),
     position    |-> [x |-> track_info.center.x, y |-> track_info.center.y],
     metadata    |-> [duration |-> get_track_duration(tracking_id),
                      bbox |-> track_info.bbox,
                      frame_number |-> track_info.frame_number],
     confidence  |-> track_info.confidence]

CreateMovingEvent(tracking_id, track_info, timestamp) ==
    [event_type  |-> "object_moving",
     timestamp   |-> IsoFormat(timestamp),
     tracking_id |-> tracking_id,
     class_name  |-> ClassName(track_info.class_id),
     position    |-> [x |-> track_info.center.x, y |-> track_info.center.y],
     metadata    |-> [bbox |-> track_info.bbox,
                      frame_number |-> track_info.frame_number],
     confidence  |-> track_info.confidence]

\* A callback loop without the inner try: the first callback that raises
\* ends it.
LoopEndsOnRaise(callback) == callback = "returns"

\* Whether the callback loop of _emit_event goes on to the next callback
\* after calling this one: each call sits in its own try/except Exception,
\* so it does whether the callback returns or raises.
LoopContinues(callback) == callback \in {"returns", "raises"}

\* The callback loop of _emit_event from callback i on.  Result: per
\* callback, the events it has been called with.
RECURSIVE InvokeCallbacks(_, _, _, _)
InvokeCallbacks(callbacks, calls, event, i) ==
    IF i > Len(callbacks) THEN calls
    ELSE LET called == [calls EXCEPT ![i] = Append(@, event)]
         IN  IF LoopContinues(callbacks[i])
             THEN InvokeCallbacks(callbacks, called, event, i + 1)
             ELSE called

EmitEvent(ba, event) ==
    [ba EXCEPT !.recent_events = Append(@, event),
               !.emitted = Append(@, event),
               !.invoked = InvokeCallbacks(ba.event_callbacks, @, event, 1)]

\* A confidence test that lets every track through.
AlwaysConfident(track_info) == TRUE

ConfidentEnough(track_info) ==
    ~(track_info.confidence < behavior_config.min_confidence)

\* An appearance test that forgets tracked_objects and relies on the
\* debounce alone.
AppearanceDueByDebounceOnly(ba, tracking_id, current_time) ==
    ~(current_time - DictGet(ba.last_appearance_events, tracking_id, 0)
          < behavior_config.debounce_seconds)

\* The tests of _check_object_appearances on a confident track.
AppearanceDue(ba, tracking_id, current_time) ==
    /\ tracking_id \notin DOMAIN ba.tracked_objects
    /\ ~(current_time - DictGet(ba.last_appearance_events, tracking_id, 0)
             < behavior_config.debounce_seconds)

CheckAppearance(ba, track_info, current_time) ==
    LET tracking_id == track_info.tracking_id
    IN  IF ConfidentEnough(track_info) /\ AppearanceDue(ba, tracking_id, current_time)
        THEN [EmitEvent(ba, CreateAppearanceEvent(tracking_id, track_info, current_time))
                 EXCEPT !.last_appearance_events = DictSet(@, tracking_id, current_time)]
        ELSE ba

RECURSIVE CheckObjectAppearances(_, _, _, _)
CheckObjectAppearances(ba, current_tracks, i, current_time) ==
    IF i > Len(current_tracks) THEN ba
    ELSE CheckObjectAppearances(CheckAppearance(ba, current_tracks[i], current_time),
                                current_tracks, i + 1, current_time)

\* The debounce test of _check_static_objects.
StaticDebounced(ba, tracking_id, current_time) ==
    current_time - DictGet(ba.last_static_events, tracking_id, 0)
        < behavior_config.static_threshold_seconds

\* "if duration and duration >= threshold": None and 0.0 are falsy.
DurationReached(duration) ==
    /\ duration # -1
    /\ duration # 0
    /\ duration >= behavior_config.static_threshold_seconds

\* Body of the loop of _check_static_objects for one track.
CheckStatic(ba, tracking_id, current_time) ==
    LET track_info == get_track_info(tracking_id)
        duration   == get_track_duration(tracking_id)
    IN  IF /\ track_info # None
           /\ ConfidentEnough(track_info)
           /\ is_track_static(tracking_id, behavior_config.position_tolerance_pixels,
                              MinFramesStatic)
           /\ ~StaticDebounced(ba, tracking_id, current_time)
           /\ DurationReached(duration)
        THEN [EmitEvent(ba, CreateStaticEvent(tracking_id, track_info,
                                              current_time, duration))
                 EXCEPT !.last_static_events = DictSet(@, tracking_id, current_time)]
        ELSE ba

RECURSIVE CheckStaticObjects(_, _, _, _)
CheckStaticObjects(ba, keys, i, current_time) ==
    IF i > Len(keys) THEN ba
    ELSE CheckStaticObjects(CheckStatic(ba, keys[i], current_time),
                            keys, i + 1, current_time)

\* The debounce test of _check_moving_objects.
MovingDebounced(ba, tracking_id, current_time) ==
    current_time - DictGet(ba.last_moving_events, tracking_id, 0)
        < behavior_config.debounce_seconds

\* A moving check that leaves last_static_events as it is.
KeepStaticFlag(last_static, tracking_id) == last_static

\* What _check_moving_objects does to last_static_events after a moving event.
ClearStaticFlag(last_static, tracking_id) == DictPop(last_static, tracking_id)

\* Body of the loop of _check_moving_objects for one track.
CheckMoving(ba, tracking_id, current_time) ==
    LET track_info == get_track_info(tracking_id)
    IN  IF /\ track_info # None
           /\ ConfidentEnough(track_info)
           /\ tracking_id \in DOMAIN ba.last_static_events
           /\ ~is_track_static(tracking_id, behavior_config.position_tolerance_pixels,
                               MinFramesMoving)
           /\ ~MovingDebounced(ba, tracking_id, current_time)
        THEN [EmitEvent(ba, CreateMovingEvent(tracking_id, track_info, current_time))
                 EXCEPT !.last_moving_events = DictSet(@, tracking_id, current_time),
                        !.last_static_events = ClearStaticFlag(@, tracking_id)]
        ELSE ba

RECURSIVE CheckMovingObjects(_, _, _, _)
CheckMovingObjects(ba, keys, i, current_time) ==
    IF i > Len(keys) THEN ba
    ELSE CheckMovingObjects(CheckMoving(ba, keys[i], current_time),
                            keys, i + 1, current_time)

\* tracked_objects[id] = {**track_info, 'last_seen': current_time}
ObjectState(track_info, current_time) == DictSet(track_info, "last_seen", current_time)

\* An inactivity test that waits for the track timeout instead of the grace
\* period.
IsInactiveAfterTimeout(obj_state, current_time) ==
    current_time - obj_state.last_seen > TrackTimeoutSeconds

\* The test of _update_object_states on an object that is in no current track.
IsInactive(obj_state, current_time) ==
    current_time - obj_state.last_seen > InactiveGraceSeconds

\* A removal that leaves the debounce map as it is.
KeepDebounce(last_events, inactive_objects) == last_events

\* What _update_object_states does to a debounce map: pop(tracking_id, None)
\* for every object it removes.
PopDebounce(last_events, inactive_objects) ==
    [id \in (DOMAIN last_events) \ inactive_objects |-> last_events[id]]

UpdateObjectStates(ba, current_tracks, current_time) ==
    LET updated == [id \in (DOMAIN ba.tracked_objects) \cup TrackKeys(current_tracks) |->
                       IF HasTrack(current_tracks, id)
                       THEN ObjectState(TrackOf(current_tracks, id), current_time)
                       ELSE ba.tracked_objects[id]]
        inactive_objects == {id \in DOMAIN updated :
                                /\ ~HasTrack(current_tracks, id)
                                /\ IsInactive(updated[id], current_time)}
    IN  [ba EXCEPT !.tracked_objects =
                       [id \in (DOMAIN updated) \ inactive_objects |-> updated[id]],
                   !.last_appearance_events = PopDebounce(@, inactive_objects),
                   !.last_static_events = PopDebounce(@, inactive_objects),
                   !.last_moving_events = PopDebounce(@, inactive_objects)]

\* A trim that keeps the oldest events instead: recent_events[:max_events].
TrimEventsKeepsOldest(events, max_events) ==
    IF Len(events) > max_events THEN SubSeq(events, 1, max_events) ELSE events

\* recent_events[-max_events:] once more than max_events are retained.
TrimEvents(events, max_events) ==
    IF Len(events) > max_events THEN LastN(events, max_events) ELSE events

CleanupOldEvents(ba, max_events) ==
    [ba EXCEPT !.recent_events = TrimEvents(@, max_events)]

\* The BehaviorAnalyzer as analyze_frame finds it, with the given callbacks
\* registered.
BAWith(callbacks) ==
    [tracked_objects        |-> tracked_objects,
     recent_events          |-> recent_events,
     event_callbacks        |-> callbacks,
     last_appearance_events |-> last_appearance_events,
     last_static_events     |-> last_static_events,
     last_moving_events     |-> last_moving_events,
     emitted                |-> <<>>,
     invoked                |-> [i \in 1..Len(callbacks) |-> <<>>]]

BA == BAWith(event_callbacks)

\* The steps of analyze_frame, from the BehaviorAnalyzer state ba.
AnalyzeFrom(ba) ==
    LET current_time   == now
        current_tracks == get_active_tracks
        keys == KeyOrder(get_active_tracks)
        ba1  == CheckObjectAppearances(ba, current_tracks, 1, current_time)
        ba2  == CheckStaticObjects(ba1, keys, 1, current_time)
        ba3  == CheckMovingObjects(ba2, keys, 1, current_time)
        ba4  == UpdateObjectStates(ba3, current_tracks, current_time)
    IN  CleanupOldEvents(ba4, MaxEvents)

\* The BehaviorAnalyzer state analyze_frame leaves.
AnalyzeResult == AnalyzeFrom(BA)

\* The emission times the events of one analyze_frame call add to last_emit.
RECURSIVE RecordEmissions(_, _, _, _)
RecordEmissions(log, events, i, current_time) ==
    IF i > Len(events) THEN log
    ELSE RecordEmissions(
             [log EXCEPT ![events[i].tracking_id] =
                             DictSet(@, events[i].event_type, current_time)],
             events, i + 1, current_time)

AnalyzeFrame ==
    \E ba \in {AnalyzeResult} :
        /\ tracked_objects' = ba.tracked_objects
        /\ recent_events' = ba.recent_events
        /\ last_appearance_events' = ba.last_appearance_events
        /\ last_static_events' = ba.last_static_events
        /\ last_moving_events' = ba.last_moving_events
        /\ emitted' = ba.emitted
        /\ invoked' = ba.invoked
        /\ last_emit' = RecordEmissions(last_emit, ba.emitted, 1, now)
        /\ CallMade
        /\ NothingNotified
        /\ UNCHANGED <<now, tmvars, event_callbacks, cfgvars, dispvars, streamvars, savervars>>

\* recent_events[-limit:] as Python slices it: for limit > 0 the slice starts
\* limit places before the end, or at the first event if there are fewer; -0
\* is 0, so for limit = 0 it starts at the first event as well.
get_recent_events(limit) ==
    LET n     == Len(recent_events)
        start == IF limit = 0 THEN 0 ELSE Max(n - limit, 0)
    IN  SubSeq(recent_events, start + 1, n)

\* A call of get_recent_events(limit); query holds what it returned.
GetRecentEvents(limit) ==
    /\ query' = [limit |-> limit, recent_events |-> get_recent_events(limit)]
    /\ notified' = <<>>
    /\ loaded' = <<>>
    /\ NothingEmitted(event_callbacks)
    /\ CallMade
    /\ UNCHANGED <<now, tmvars, bavars, event_callbacks, cfgvars, dispvars, streamvars, savervars>>

\* add_event_callback: the callback either returns or raises when called.
AddEventCallback(callback) ==
    /\ Len(event_callbacks) < MaxCallbacks
    /\ event_callbacks' = Append(event_callbacks, callback)
    /\ NothingEmitted(Append(event_callbacks, callback))
    /\ NothingNotified
    /\ UNCHANGED <<now, tmvars, bavars, call_parity, cfgvars, dispvars, streamvars, savervars>>

(***************************************************************************)
(* EventDispatcher (src/src/event_dispatcher.py).  Three threads work on   *)
(* it: the frame thread, which calls dispatch_event from the callback loop *)
(* of the behaviour engine; the worker thread, which runs _worker_loop;    *)
(* and the thread that calls shutdown().  A delivery attempt of the worker *)
(* takes any length of time: its completion is a step of its own.          *)
(***************************************************************************)
\* Every other step leaves the analyzer, the store and the configuration alone.
OnlyDispatcher ==
    /\ NothingEmitted(event_callbacks)
    /\ NothingNotified
    /\ UNCHANGED <<now, tmvars, bavars, event_callbacks, call_parity, cfgvars,
                   streamvars, savervars>>

\* A queue on which put blocks while an event is waiting: Queue(maxsize=1).
PutBlocksWhenFull(queue) == Len(queue) >= 1

\* Whether event_queue.put(event) has to wait: event_queue is Queue(), whose
\* maxsize is 0, so it never does.
PutBlocks(queue) == FALSE

\* A get that takes the newest event (a LifoQueue).
QueueGetNewest(queue) ==
    [event |-> queue[Len(queue)], queue |-> SubSeq(queue, 1, Len(queue) - 1)]

\* event_queue.get() on a non-empty Queue: the oldest event, and the queue
\* it leaves.
QueueGet(queue) == [event |-> Head(queue), queue |-> Tail(queue)]

\* A count that adds two.
CountReceivedTwice(counters) == [counters EXCEPT !.events_received = @ + 2]

\* self.stats['events_received'] += 1
CountReceived(counters) == [counters EXCEPT !.events_received = @ + 1]

\* The frame thread enters dispatch_event(event) and counts the event.
BeginDispatch(event) ==
    /\ frame_call = None
    /\ Len(dispatched) < MaxDispatched
    /\ frame_call' = event
    /\ stats' = CountReceived(stats)
    /\ UNCHANGED <<event_queue, unfinished_tasks, worker_pc, worker_event,
                   stop_worker, shutdown_pc, delivery, processed,
                   dispatched>>
    /\ OnlyDispatcher

\* The rest of dispatch_event: event_queue.put(event), and the return.
CompleteDispatch ==
    /\ frame_call # None
    /\ ~PutBlocks(event_queue)
    /\ UNCHANGED stats
    /\ event_queue' = Append(event_queue, frame_call)
    /\ unfinished_tasks' = unfinished_tasks + 1
    /\ dispatched' = Append(dispatched, frame_call)
    /\ frame_call' = None
    /\ UNCHANGED <<worker_pc, worker_event, stop_worker, shutdown_pc, delivery,
                   processed>>
    /\ OnlyDispatcher

\* _worker_loop: the loop test fails once stop_worker is set.
WorkerExit ==
    /\ worker_pc = "loop"
    /\ stop_worker
    /\ worker_pc' = "exited"
    /\ UNCHANGED <<frame_call, event_queue, unfinished_tasks, worker_event,
                   stop_worker, shutdown_pc, delivery, stats, processed,
                   dispatched>>
    /\ OnlyDispatcher

\* _worker_loop: the loop test passes and the worker calls
\* event_queue.get(timeout=1.0).
WorkerPoll ==
    /\ worker_pc = "loop"
    /\ ~stop_worker
    /\ worker_pc' = "get"
    /\ UNCHANGED <<frame_call, event_queue, unfinished_tasks, worker_event,
                   stop_worker, shutdown_pc, delivery, stats, processed,
                   dispatched>>
    /\ OnlyDispatcher

\* _worker_loop: event_queue.get raises Empty after a second on an empty
\* queue, and the loop starts over.
WorkerGetTimeout ==
    /\ worker_pc = "get"
    /\ Len(event_queue) = 0
    /\ worker_pc' = "loop"
    /\ UNCHANGED <<frame_call, event_queue, unfinished_tasks, worker_event,
                   stop_worker, shutdown_pc, delivery, stats, processed,
                   dispatched>>
    /\ OnlyDispatcher

\* _worker_loop: event_queue.get returns the oldest event, which is passed to
\* _process_event.
WorkerGet ==
    /\ worker_pc = "get"
    /\ Len(event_queue) > 0
    /\ worker_event' = QueueGet(event_queue).event
    /\ event_queue' = QueueGet(event_queue).queue
    /\ processed' = Append(processed, QueueGet(event_queue).event)
    /\ worker_pc' = "http"
    /\ UNCHANGED <<frame_call, unfinished_tasks, stop_worker, shutdown_pc,
                   delivery, stats,
                   dispatched>>
    /\ OnlyDispatcher

\* _process_event: http_delivery.send_event returns True or False, if HTTP
\* delivery is configured.
WorkerHttp(sent) ==
    /\ worker_pc = "http"
    /\ stats' = IF ~delivery.http THEN stats
                ELSE IF sent THEN [stats EXCEPT !.events_sent_http = @ + 1]
                ELSE [stats EXCEPT !.events_failed_http = @ + 1]
    /\ worker_pc' = "mqtt"
    /\ UNCHANGED <<frame_call, event_queue, unfinished_tasks, worker_event,
                   stop_worker, shutdown_pc, delivery, processed,
                   dispatched>>
    /\ OnlyDispatcher

\* _process_event: mqtt_delivery.send_event returns True or False, if MQTT
\* delivery is configured; then _worker_loop calls event_queue.task_done().
WorkerMqtt(sent) ==
    /\ worker_pc = "mqtt"
    /\ stats' = IF ~delivery.mqtt THEN stats
                ELSE IF sent THEN [stats EXCEPT !.events_sent_mqtt = @ + 1]
                ELSE [stats EXCEPT !.events_failed_mqtt = @ + 1]
    /\ unfinished_tasks' = unfinished_tasks - 1
    /\ worker_event' = None
    /\ worker_pc' = "loop"
    /\ UNCHANGED <<frame_call, event_queue, stop_worker, shutdown_pc, delivery,
                   processed,
                   dispatched>>
    /\ OnlyDispatcher

\* shutdown(): self.stop_worker = True.
ShutdownBegin ==
    /\ shutdown_pc = "none"
    /\ stop_worker' = TRUE
    /\ shutdown_pc' = "join_worker"
    /\ UNCHANGED <<frame_call, event_queue, unfinished_tasks, worker_pc,
                   worker_event, delivery, stats, processed,
                   dispatched>>
    /\ OnlyDispatcher

\* shutdown(): worker_thread.join(timeout=5) returns, the worker having
\* ended or the five seconds having passed.
ShutdownJoinWorker ==
    /\ shutdown_pc = "join_worker"
    /\ shutdown_pc' = "join_queue"
    /\ UNCHANGED <<frame_call, event_queue, unfinished_tasks, worker_pc,
                   worker_event, stop_worker, delivery, stats, processed,
                   dispatched>>
    /\ OnlyDispatcher

\* shutdown(): event_queue.join() returns, which it does once every event
\* put on the queue has been marked done; then MQTT is disconnected.
ShutdownJoinQueue ==
    /\ shutdown_pc = "join_queue"
    /\ unfinished_tasks = 0
    /\ shutdown_pc' = "done"
    /\ UNCHANGED <<frame_call, event_queue, unfinished_tasks, worker_pc,
                   worker_event, stop_worker, delivery, stats, processed,
                   dispatched>>
    /\ OnlyDispatcher

\* EventDispatcher.__init__ with the given delivery methods configured.
InitDispatcher(http, mqtt) ==
    /\ frame_call = None
    /\ event_queue = <<>>
    /\ unfinished_tasks = 0
    /\ worker_pc = "loop"
    /\ worker_event = None
    /\ stop_worker = FALSE
    /\ shutdown_pc = "none"
    /\ delivery = [http |-> http, mqtt |-> mqtt]
    /\ stats = [events_received |-> 0, events_sent_http |-> 0,
                events_sent_mqtt |-> 0, events_failed_http |-> 0,
                events_failed_mqtt |-> 0]
    /\ processed = <<>>
    /\ dispatched = <<>>

(***************************************************************************)
(* RTSPStreamManager.  The monitor thread runs _monitor_stream: one cycle  *)
(* of its loop is a step, the sleep between two cycles another.  Only the  *)
(* monitor thread writes is_connected and reconnect_count; the frame       *)
(* thread writes last_frame_time through update_frame_time.                *)
(***************************************************************************)
\* Every other step leaves the rest of the pipeline alone.
OnlyStream ==
    /\ NothingEmitted(event_callbacks)
    /\ NothingNotified
    /\ UNCHANGED <<now, tmvars, bavars, event_callbacks, call_parity, cfgvars,
                   dispvars, savervars>>

\* An attempt test that allows one attempt more than configured.
ShouldAttemptOneMore(count, max_attempts) ==
    IF max_attempts = -1 THEN TRUE ELSE count <= max_attempts

\* _should_attempt_reconnect.
ShouldAttemptReconnect(count, max_attempts) ==
    IF max_attempts = -1 THEN TRUE ELSE count < max_attempts

\* _check_stream_health at current_time.
CheckStreamHealth(frame_time, current_time) ==
    IF frame_time = -1 THEN TRUE
    ELSE ~(current_time - frame_time > FrameTimeoutSeconds)

\* _attempt_connection, with a connected or reconnected callback that
\* returns or raises: the except clause takes is_connected back.
AttemptConnection(callback) ==
    /\ is_connected' = (callback = "returns")
    /\ reconnect_count' = reconnect_count + 1
    /\ last_frame_time' = now
    /\ attempts' = attempts + 1

\* _handle_disconnection.
HandleDisconnection ==
    /\ is_connected' = FALSE
    /\ last_frame_time' = -1
    /\ UNCHANGED <<reconnect_count, attempts>>

\* One pass through the body of the loop of _monitor_stream, up to the
\* sleep.
MonitorCycle ==
    /\ monitor_pc = "loop"
    /\ ~stop_monitoring
    /\ attempts < MaxAttempts + 1
    /\ IF ~is_connected
       THEN IF ShouldAttemptReconnect(reconnect_count, max_reconnect_attempts)
            THEN \E callback \in {"returns", "raises"} : AttemptConnection(callback)
            ELSE UNCHANGED <<is_connected, reconnect_count, last_frame_time, attempts>>
       ELSE IF ~CheckStreamHealth(last_frame_time, now)
            THEN HandleDisconnection
            ELSE UNCHANGED <<is_connected, reconnect_count, last_frame_time, attempts>>
    /\ monitor_pc' = "sleep"
    /\ UNCHANGED <<max_reconnect_attempts, stop_monitoring>>
    /\ OnlyStream

\* time.sleep(self.reconnect_interval) is over.
MonitorWake ==
    /\ monitor_pc = "sleep"
    /\ monitor_pc' = "loop"
    /\ UNCHANGED <<max_reconnect_attempts, is_connected, reconnect_count,
                   last_frame_time, stop_monitoring, attempts>>
    /\ OnlyStream

\* The loop test finds stop_monitoring set: the thread ends.
MonitorExit ==
    /\ monitor_pc = "loop"
    /\ stop_monitoring
    /\ monitor_pc' = "done"
    /\ UNCHANGED <<max_reconnect_attempts, is_connected, reconnect_count,
                   last_frame_time, stop_monitoring, attempts>>
    /\ OnlyStream

\* start_monitoring: nothing while a monitor thread is alive, a new thread
\* otherwise.
StartMonitoring ==
    /\ monitor_pc \in {"none", "done"}
    /\ stop_monitoring' = FALSE
    /\ monitor_pc' = "loop"
    /\ UNCHANGED <<max_reconnect_attempts, is_connected, reconnect_count,
                   last_frame_time, attempts>>
    /\ OnlyStream

\* stop_monitoring_thread, which waits for the thread for at most 5 s.
StopMonitoringThread ==
    /\ ~stop_monitoring
    /\ stop_monitoring' = TRUE
    /\ UNCHANGED <<max_reconnect_attempts, is_connected, reconnect_count,
                   last_frame_time, monitor_pc, attempts>>
    /\ OnlyStream

\* update_frame_time, called by the probe on the source pad.
UpdateFrameTime ==
    /\ last_frame_time # now
    /\ last_frame_time' = now
    /\ UNCHANGED <<max_reconnect_attempts, is_connected, reconnect_count,
                   stop_monitoring, monitor_pc, attempts>>
    /\ OnlyStream

\* RTSPStreamManager.__init__.
InitStream(max_attempts) ==
    /\ max_reconnect_attempts = max_attempts
    /\ is_connected = FALSE
    /\ reconnect_count = 0
    /\ last_frame_time = -1
    /\ stop_monitoring = FALSE
    /\ monitor_pc = "none"
    /\ attempts = 0

(***************************************************************************)
(* FrameSaver.  process_frame_metadata runs on the frame thread and puts   *)
(* the frames to save on frame_queue; the worker thread takes them off     *)
(* and saves them in _process_frame.                                       *)
(***************************************************************************)
\* Every other step leaves the rest of the pipeline alone.
OnlySaver ==
    /\ NothingEmitted(event_callbacks)
    /\ NothingNotified
    /\ UNCHANGED <<tmvars, bavars, event_callbacks, call_parity, cfgvars,
                   dispvars, streamvars>>

\* The reset of the hourly counter in _should_save_frame: whether it is due
\* at current_time.
HourOver(current_time, start) == current_time - start > HourSeconds

\* _should_save_frame, once the reset is done.
ShouldSaveFrame(has_detections, saves) ==
    IF detection_only_mode /\ ~has_detections THEN FALSE
    ELSE ~(saves >= max_frames_per_hour)

\* process_frame_metadata on a frame with or without detections above the
\* confidence threshold.  put_nowait on the full queue raises, and the
\* frame is skipped.
ProcessFrameMetadata(has_detections) ==
    LET reset == ~(detection_only_mode /\ ~has_detections)
                     /\ HourOver(now, hour_start)
        saves == IF reset THEN 0 ELSE saves_this_hour
    IN  /\ saves_this_hour' = saves
        /\ hour_start' = IF reset THEN now ELSE hour_start
        /\ frames_saved' = IF reset THEN 0 ELSE frames_saved
        /\ frame_queue' =
               IF ShouldSaveFrame(has_detections, saves)
                      /\ frame_queue < MaxFrameQueue
               THEN frame_queue + 1
               ELSE frame_queue
        /\ UNCHANGED <<now, max_frames_per_hour, detection_only_mode>>
        /\ OnlySaver

\* _worker_loop takes a frame off the queue and _process_frame saves it and
\* counts it, or raises while saving, which is logged.
SaverProcessFrame(saved) ==
    /\ frame_queue > 0
    /\ frame_queue' = frame_queue - 1
    /\ saves_this_hour' = IF saved THEN saves_this_hour + 1 ELSE saves_this_hour
    /\ frames_saved' = IF saved THEN frames_saved + 1 ELSE frames_saved
    /\ UNCHANGED <<now, max_frames_per_hour, detection_only_mode, hour_start>>
    /\ OnlySaver

\* FrameSaver.__init__ at time Epoch.
InitSaver(max_frames, detection_only) ==
    /\ max_frames_per_hour = max_frames
    /\ detection_only_mode = detection_only
    /\ frame_queue = 0
    /\ saves_this_hour = 0
    /\ hour_start = Epoch
    /\ frames_saved = 0

(***************************************************************************)
(* The clock and the frames fed in.                                        *)
(***************************************************************************)
AdvanceClock ==
    /\ now + Tick <= Epoch + MaxTicks * Tick
    /\ now' = now + Tick
    /\ NothingEmitted(event_callbacks)
    /\ NothingNotified
    /\ UNCHANGED <<tmvars, bavars, event_callbacks, call_parity, cfgvars, dispvars, streamvars, savervars>>

\* The frame counter of the source: one frame number per clock step.
FrameNum == (now - Epoch) \div Tick

Obj(id, conf, left, width) ==
    [object_id |-> id, class_id |-> 0, confidence |-> conf,
     left |-> left, top |-> 90, width |-> width, height |-> 20]

\* Well-formed detections: centred at (100,100) and at (500,100), confident
\* (0.9) or not (0.3).
GoodObjs(id) == {Obj(id, 9, 90, 20), Obj(id, 9, 490, 20), Obj(id, 3, 490, 20)}

\* Malformed detections: negative width, confidence above 1.
BadObjs(id) == {Obj(id, 9, 90, -20), Obj(id, 15, 90, 20)}

IsMalformed(obj_meta) ==
    \/ obj_meta.width < 0
    \/ obj_meta.height < 0
    \/ obj_meta.confidence < 0
    \/ obj_meta.confidence > 10

Frame(objs) == [frame_num |-> FrameNum, obj_meta_list |-> objs]

\* The objects fed in move left to right: a track is never detected to the
\* left of where it was last detected, and it is detected with low
\* confidence only on arriving at a new place.
MovesOn(objs) ==
    \A i \in 1..Len(objs) :
        HasTrack(active_tracks, objs[i].object_id)
            => LET was == TrackOf(active_tracks, objs[i].object_id).bbox.left
               IN  /\ was <= objs[i].left
                   /\ objs[i].confidence < MinConfidence => was < objs[i].left

\* At most one detection of a track per clock value.
OncePerTick(objs) ==
    \A i \in 1..Len(objs) :
        HasTrack(active_tracks, objs[i].object_id)
            => TrackOf(active_tracks, objs[i].object_id).timestamp < now

\* A configuration file that spells out the defaults.
DefaultFile == [kind |-> "yaml", data |-> [behavior |-> BehaviorDefaults]]

\* ConfigManager.__init__ loads the file; _init_behavior_analysis creates the
\* BehaviorAnalyzer from get_behavior_config().
StartWith(file) ==
    /\ config_file = file
    /\ config = LoadConfig(None, file).config
    /\ behavior_config = AnalyzerConfig(get_behavior_config(LoadConfig(None, file).config))
    /\ last_modified_time = Epoch
    /\ modified_events = 0
    /\ change_callbacks = <<"pipeline">>

InitAnalysis ==
    /\ now = Epoch
    /\ active_tracks = <<>>
    /\ track_history = EmptyDict
    /\ lost_tracks = {}
    /\ last_observed = EmptyDict
    /\ steady = {}
    /\ tracked_objects = EmptyDict
    /\ recent_events = <<>>
    /\ event_callbacks = <<>>
    /\ last_appearance_events = EmptyDict
    /\ last_static_events = EmptyDict
    /\ last_moving_events = EmptyDict
    /\ emitted = <<>>
    /\ invoked = <<>>
    /\ last_emit = [id \in Ids |-> EmptyDict]
    /\ call_parity = 0
    /\ notified = <<>>
    /\ loaded = <<>>
    /\ query = None

\* PipelineManager: the analysis components, RTSPStreamManager(rtsp_uri)
\* with its default of unlimited attempts, and a FrameSaver with the
\* defaults of FrameSavingConfig.
InitPipeline == InitAnalysis /\ InitStream(-1) /\ InitSaver(DefaultFramesPerHour, FALSE)

Init == InitPipeline /\ StartWith(DefaultFile) /\ InitDispatcher(TRUE, TRUE)

(***************************************************************************)
(* SpecTrack: the track store alone, fed within one clock step frames of   *)
(* up to two detections of distinct ids, malformed ones included.          *)
(***************************************************************************)
TrackObjs == {Obj(1, 9, 90, 20)} \cup BadObjs(1) \cup {Obj(2, 9, 90, 20)}

TrackFrames ==
    {<<>>} \cup {<<o>> : o \in TrackObjs}
           \cup {f \in {<<o, p>> : o \in TrackObjs, p \in TrackObjs} :
                     f[1].object_id # f[2].object_id}

IngestFrame == \E objs \in TrackFrames : UpdateTracks(Frame(objs))

NextTrack == IngestFrame

SpecTrack == Init /\ [][NextTrack]_vars

(***************************************************************************)
(* Spec: track store and behaviour engine, fed frames of at most one       *)
(* detection of one id that moves left to right, with update_tracks and    *)
(* analyze_frame called in any order.                                      *)
(***************************************************************************)
FeedFrames == {<<>>} \cup {<<o>> : o \in GoodObjs(1)}

FeedFrame ==
    \E objs \in FeedFrames :
        /\ MovesOn(objs)
        /\ UpdateTracks(Frame(objs))

RegisterCallback == \E callback \in {"returns", "raises"} : AddEventCallback(callback)

Next == AdvanceClock \/ FeedFrame \/ AnalyzeFrame

Spec == Init /\ [][Next]_vars

(***************************************************************************)
(* SpecCallbacks: the behaviour engine with callbacks registered at any    *)
(* time, some of which raise, fed an object that stays where it is and is  *)
(* detected at most once per clock value.                                  *)
(***************************************************************************)
StillFrames == {<<>>, <<Obj(1, 9, 90, 20)>>}

FeedStillFrame ==
    \E objs \in StillFrames :
        /\ OncePerTick(objs)
        /\ UpdateTracks(Frame(objs))

NextCallbacks == AdvanceClock \/ FeedStillFrame \/ AnalyzeFrame \/ RegisterCallback

SpecCallbacks == Init /\ [][NextCallbacks]_vars

(***************************************************************************)
(* SpecHistory: the track store with cleanup_old_history called at any     *)
(* time, fed frames of at most one detection: of object 1, at either       *)
(* place, or of object 2, each detected at most once per clock value.      *)
(***************************************************************************)
HistoryFrames ==
    {<<>>, <<Obj(1, 9, 90, 20)>>, <<Obj(1, 9, 490, 20)>>, <<Obj(2, 9, 90, 20)>>}

FeedHistoryFrame ==
    \E objs \in HistoryFrames :
        /\ OncePerTick(objs)
        /\ UpdateTracks(Frame(objs))

\* The ages cleanup_old_history is called with: its default, and one below
\* the track timeout.
MaxAges == {DefaultMaxAgeSeconds, InactiveGraceSeconds}

PruneHistory == \E max_age_seconds \in MaxAges : CleanupHistory(max_age_seconds)

NextHistory == AdvanceClock \/ FeedHistoryFrame \/ PruneHistory

SpecHistory == Init /\ [][NextHistory]_vars

(***************************************************************************)
(* SpecPipeline: the pipeline as it runs.  The buffer probes               *)
(* tracking_src_pad_buffer_probe and behavior_analysis_probe call          *)
(* update_tracks and analyze_frame for every frame for as long as frames   *)
(* arrive; nothing in the repository calls cleanup_old_history.  Frames    *)
(* hold at most one detection, of object 1 or of object 2, each detected   *)
(* at most once per clock value.                                           *)
(***************************************************************************)
PipelineFrames == {<<>>, <<Obj(1, 9, 90, 20)>>, <<Obj(2, 9, 90, 20)>>}

FeedPipelineFrame ==
    \E objs \in PipelineFrames :
        /\ OncePerTick(objs)
        /\ UpdateTracks(Frame(objs))

NextPipeline == AdvanceClock \/ FeedPipelineFrame \/ AnalyzeFrame

\* The pipeline keeps processing frames.
SpecPipeline ==
    /\ Init
    /\ [][NextPipeline]_vars
    /\ WF_vars(FeedPipelineFrame)
    /\ WF_vars(AnalyzeFrame)

(***************************************************************************)
(* SpecLeave: frames arrive one Tick apart and each is run through         *)
(* update_tracks on arrival; analyze_frame runs at any time in between.    *)
(* Object 1 is in the frames, at either place, until ObservedTicks frames  *)
(* have arrived; the frames keep coming without it for longer than the     *)
(* track timeout.                                                          *)
(***************************************************************************)
\* Frames that arrive after the last one of the run that may hold object 1,
\* so that the last ones arrive more than track_timeout_seconds after it.
TimeoutTicks == TrackTimeoutSeconds \div Tick + 1

LeaveFrames(current_time) ==
    IF current_time <= Epoch + ObservedTicks * Tick
    THEN {<<>>, <<Obj(1, 9, 90, 20)>>, <<Obj(1, 9, 490, 20)>>}
    ELSE {<<>>}

ArriveFrame ==
    \E current_time \in {now + Tick} :
        /\ current_time <= Epoch + (ObservedTicks + TimeoutTicks) * Tick
        /\ \E objs \in LeaveFrames(current_time) :
               /\ MovesOn(objs)
               /\ UpdateTracksAt([frame_num |-> (current_time - Epoch) \div Tick,
                                  obj_meta_list |-> objs], current_time)

NextLeave == ArriveFrame \/ AnalyzeFrame

\* update_tracks and analyze_frame keep being called.
SpecLeave ==
    /\ Init
    /\ [][NextLeave]_vars
    /\ WF_vars(ArriveFrame)
    /\ WF_vars(AnalyzeFrame)

(***************************************************************************)
(* SpecReturn: as SpecLeave, but object 1 may be in any frame: it can stay *)
(* away for longer than the track timeout and come back.                   *)
(***************************************************************************)
ReturnFrames == {<<>>, <<Obj(1, 9, 90, 20)>>, <<Obj(1, 9, 490, 20)>>}

ArriveAnyFrame ==
    \E current_time \in {now + Tick} :
        /\ current_time <= Epoch + (ObservedTicks + TimeoutTicks) * Tick
        /\ \E objs \in ReturnFrames :
               /\ MovesOn(objs)
               /\ UpdateTracksAt([frame_num |-> (current_time - Epoch) \div Tick,
                                  obj_meta_list |-> objs], current_time)

NextReturn == ArriveAnyFrame \/ AnalyzeFrame

SpecReturn == Init /\ [][NextReturn]_vars

(***************************************************************************)
(* SpecSteady: object 1 stands at (100,100) and is detected with           *)
(* confidence 0.9 in every frame; the frames arrive at a fixed interval,   *)
(* either Tick or FastInterval, and each is run through update_tracks on   *)
(* arrival; analyze_frame runs at any time in between.                     *)
(***************************************************************************)
\* A frame interval at which max_track_history samples span less than
\* static_threshold_seconds.
FastInterval == Tick \div 4

Intervals == {Tick, FastInterval}

\* The interval the frames arrive at: the one between the last two samples,
\* any of Intervals before the second frame.
FrameIntervals ==
    LET history == DictGet(track_history, 1, <<>>)
    IN  IF Len(history) < 2 THEN Intervals
        ELSE {history[Len(history)].timestamp - history[Len(history) - 1].timestamp}

ArriveSteadyFrame ==
    \E interval \in FrameIntervals :
        \E current_time \in {IF HasTrack(active_tracks, 1) THEN now + interval ELSE now} :
            /\ current_time <= Epoch + ObservedTicks * Tick
            /\ UpdateTracksAt([frame_num |-> (current_time - Epoch) \div interval,
                               obj_meta_list |-> <<Obj(1, 9, 90, 20)>>], current_time)

NextSteady == ArriveSteadyFrame \/ AnalyzeFrame

\* Frames keep arriving and analyze_frame keeps being called.
SpecSteady ==
    /\ Init
    /\ [][NextSteady]_vars
    /\ WF_vars(ArriveSteadyFrame)
    /\ WF_vars(AnalyzeFrame)

(***************************************************************************)
(* SpecConfig: the configuration file rewritten and reloaded at any time   *)
(* while the pipeline, started on any of the files, is fed within one      *)
(* clock step frames of at most one detection with confidence 0.3.         *)
(***************************************************************************)
\* A file that changes all four behavior values.
ChangedFile ==
    [kind |-> "yaml",
     data |-> [behavior |-> [static_threshold_seconds  |-> 16,
                             position_tolerance_pixels |-> 20,
                             debounce_seconds          |-> 1,
                             min_confidence            |-> 2]]]

\* The file of test_validation: three values out of range.
OutOfRangeFile ==
    [kind |-> "yaml",
     data |-> [behavior |-> [static_threshold_seconds  |-> -5,
                             position_tolerance_pixels |-> 150,
                             min_confidence            |-> 15]]]

\* A file with one value out of range: min_confidence 1.5.
OverConfidentFile ==
    [kind |-> "yaml", data |-> [behavior |-> [min_confidence |-> 15]]]

FileContents ==
    {[kind |-> "missing"], [kind |-> "unparsable"], DefaultFile, ChangedFile,
     OutOfRangeFile, OverConfidentFile}

\* The file is written, replaced or deleted.
WriteConfigFile ==
    \E file \in FileContents :
        /\ file # config_file
        /\ config_file' = file
        /\ NothingNotified
        /\ NothingEmitted(event_callbacks)
        /\ UNCHANGED <<now, tmvars, bavars, event_callbacks, call_parity,
                       config, behavior_config, watchvars, dispvars, streamvars, savervars>>

FeedConfigFrame ==
    \E objs \in {<<>>, <<Obj(1, 3, 90, 20)>>} : UpdateTracks(Frame(objs))

InitConfig ==
    /\ InitPipeline
    /\ \E file \in FileContents : StartWith(file)
    /\ InitDispatcher(TRUE, TRUE)

NextConfig == WriteConfigFile \/ ReloadConfig \/ FeedConfigFrame \/ AnalyzeFrame

SpecConfig == InitConfig /\ [][NextConfig]_vars

(***************************************************************************)
(* SpecDispatch: the event dispatcher with either delivery method          *)
(* configured or not, the frame thread dispatching an appearance and a     *)
(* moving event in any order, the worker delivering at its own pace, and   *)
(* shutdown() called at any time.                                          *)
(***************************************************************************)
DispatchedEvents ==
    {CreateAppearanceEvent(1, TrackInfo(Obj(1, 9, 90, 20), Epoch, 0), Epoch),
     CreateMovingEvent(1, TrackInfo(Obj(1, 9, 490, 20), Epoch, 0), Epoch)}

FrameThread == (\E event \in DispatchedEvents : BeginDispatch(event)) \/ CompleteDispatch

WorkerThread ==
    \/ WorkerPoll
    \/ WorkerGetTimeout
    \/ WorkerGet
    \/ \E sent \in BOOLEAN : WorkerHttp(sent)
    \/ \E sent \in BOOLEAN : WorkerMqtt(sent)
    \/ WorkerExit

ShutdownThread == ShutdownBegin \/ ShutdownJoinWorker \/ ShutdownJoinQueue

InitDispatch ==
    /\ InitPipeline
    /\ StartWith(DefaultFile)
    /\ \E http \in BOOLEAN, mqtt \in BOOLEAN : InitDispatcher(http, mqtt)

NextDispatch == FrameThread \/ WorkerThread \/ ShutdownThread

SpecDispatch == InitDispatch /\ [][NextDispatch]_vars

\* SpecDispatchFair: the same, with the worker thread and the thread in
\* shutdown() always getting to run: every delivery attempt ends (the HTTP
\* request has a timeout, the MQTT publish does not wait), and join(timeout=5)
\* returns.
SpecDispatchFair ==
    /\ InitDispatch
    /\ [][NextDispatch]_vars
    /\ WF_vars(WorkerThread)
    /\ WF_vars(ShutdownThread)

\* SpecDispatchWorker: the same, with only the worker thread always getting
\* to run; shutdown() may or may not be called.
SpecDispatchWorker ==
    /\ InitDispatch
    /\ [][NextDispatch]_vars
    /\ WF_vars(WorkerThread)

(***************************************************************************)
(* SpecQuery: the track store queried at any time, fed within one clock    *)
(* step frames of at most one detection of object 1 that jitters around    *)
(* (100,100); object 2 is never detected.                                  *)
(***************************************************************************)
\* Detections centred at (100,100), (92,100) and (106,108): the last is
\* exactly 10 pixels from the first and more than 10 from the second.
JitterObjs ==
    {Obj(1, 9, 90, 20), Obj(1, 9, 82, 20), [Obj(1, 9, 96, 20) EXCEPT !.top = 98]}

FeedJitterFrame ==
    \E objs \in {<<>>} \cup {<<o>> : o \in JitterObjs} : UpdateTracks(Frame(objs))

\* Tolerances queried: the default and one pixel less.
Tolerances == {PositionTolerancePixels, PositionTolerancePixels - 1}

WindowSizes == {MinFramesMoving, MinFramesStatic}

QueryTracks ==
    \E tracking_id \in Ids, threshold_pixels \in Tolerances, min_frames \in WindowSizes :
        QueryTrack(tracking_id, threshold_pixels, min_frames)

NextQuery == FeedJitterFrame \/ QueryTracks

SpecQuery == Init /\ [][NextQuery]_vars

(***************************************************************************)
(* SpecJitter: track store and behaviour engine fed frames of at most one  *)
(* detection of object 1 that jitters around (100,100), detected at most   *)
(* once per clock value.                                                   *)
(***************************************************************************)
FeedJitterOnce ==
    \E objs \in {<<>>} \cup {<<o>> : o \in JitterObjs} :
        /\ OncePerTick(objs)
        /\ UpdateTracks(Frame(objs))

NextJitter == AdvanceClock \/ FeedJitterOnce \/ AnalyzeFrame

SpecJitter == Init /\ [][NextJitter]_vars

(***************************************************************************)
(* SpecDuration: the track store queried and cleanup_old_history called at *)
(* any time, fed frames of at most one detection of object 1, any number   *)
(* of them per clock value; object 2 is never detected.                    *)
(***************************************************************************)
FeedDurationFrame ==
    \E objs \in {<<>>, <<Obj(1, 9, 90, 20)>>} : UpdateTracks(Frame(objs))

NextDuration == AdvanceClock \/ FeedDurationFrame \/ PruneHistory \/ QueryTracks

SpecDuration == Init /\ [][NextDuration]_vars

(***************************************************************************)
(* SpecOrder: the track store alone, fed frames of up to two detections of *)
(* distinct ids in either order, each id detected at most once per clock   *)
(* value.                                                                  *)
(***************************************************************************)
OrderObjs == {Obj(1, 9, 90, 20), Obj(1, 9, 490, 20), Obj(2, 9, 90, 20)}

OrderFrames ==
    {<<>>} \cup {<<o>> : o \in OrderObjs}
           \cup {f \in {<<o, p>> : o \in OrderObjs, p \in OrderObjs} :
                     f[1].object_id # f[2].object_id}

FeedOrderFrame ==
    \E objs \in OrderFrames :
        /\ OncePerTick(objs)
        /\ UpdateTracks(Frame(objs))

NextOrder == AdvanceClock \/ FeedOrderFrame

SpecOrder == Init /\ [][NextOrder]_vars

(***************************************************************************)
(* SpecRecent: track store and behaviour engine fed frames of at most one  *)
(* detection of object 1 at (100,100), at most one per clock value, with   *)
(* get_recent_events called at any time.                                   *)
(***************************************************************************)
FeedRecentFrame ==
    \E objs \in {<<>>, <<Obj(1, 9, 90, 20)>>} :
        /\ OncePerTick(objs)
        /\ UpdateTracks(Frame(objs))

\* The limits get_recent_events is called with.
Limits == 0..(MaxEvents + 1)

ReadRecentEvents == \E limit \in Limits : GetRecentEvents(limit)

NextRecent == AdvanceClock \/ FeedRecentFrame \/ AnalyzeFrame \/ ReadRecentEvents

SpecRecent == Init /\ [][NextRecent]_vars

(***************************************************************************)
(* SpecEvents: track store and behaviour engine with cleanup_old_history   *)
(* called at any time, fed frames of at most one confident detection of    *)
(* one object that moves left to right.                                    *)
(***************************************************************************)
EventFrames == {<<>>, <<Obj(1, 9, 90, 20)>>, <<Obj(1, 9, 490, 20)>>}

FeedEventFrame ==
    \E objs \in EventFrames :
        /\ MovesOn(objs)
        /\ UpdateTracks(Frame(objs))

NextEvents == AdvanceClock \/ FeedEventFrame \/ PruneHistory \/ AnalyzeFrame

SpecEvents == Init /\ [][NextEvents]_vars

(***************************************************************************)
(* Properties of the track store.                                          *)
(***************************************************************************)
IsSuffix(s, t) == Len(s) <= Len(t) /\ s = SubSeq(t, Len(t) - Len(s) + 1, Len(t))

\* The history samples update_tracks derives from the detections of id in objs.
Observed(objs, id) ==
    LET own == SelectSeq(objs, LAMBDA o : o.object_id = id)
    IN  [i \in 1..Len(own) |-> Position(TrackInfo(own[i], now, FrameNum))]

\* C4: after every update_tracks call each history holds at most
\* max_track_history samples; what is kept is the newest end of the old
\* history followed by the new samples, in that order, and a track that was
\* active loses samples only as far as the cap requires.
HistoryCapped ==
    [][\A objs \in FeedFrames :
          UpdateTracks(Frame(objs)) =>
              \A id \in DOMAIN track_history' :
                  LET fed == DictGet(track_history, id, <<>>) \o Observed(objs, id)
                  IN  /\ Len(track_history'[id]) <= MaxTrackHistory
                      /\ IsSuffix(track_history'[id], fed)
                      /\ HasTrack(active_tracks, id) =>
                             Len(track_history'[id]) = Min(Len(fed), MaxTrackHistory)]_vars

\* A continuously tracked object whose history is full and starts at
\* (500,100), while its appearance was reported at (100,100): the samples at
\* (100,100) have been dropped.
HistoryCappedWitness ==
    \E id \in steady :
        /\ HasTrack(active_tracks, id)
        /\ Len(track_history[id]) = MaxTrackHistory
        /\ track_history[id][1].x = 500
        /\ \E i \in 1..Len(recent_events) :
               /\ recent_events[i].tracking_id = id
               /\ recent_events[i].event_type = "object_appeared"
               /\ recent_events[i].position.x = 100

\* C5: after every update_tracks call an id is in active_tracks exactly when
\* it is detected in that frame or was last detected no more than
\* track_timeout_seconds ago.
ActiveIffRecent ==
    [][\A objs \in FeedFrames :
          UpdateTracks(Frame(objs)) =>
              \A id \in Ids :
                  HasTrack(active_tracks', id) <=>
                      \/ id \in CurrentTrackIds(objs)
                      \/ /\ id \in DOMAIN last_observed
                         /\ now - last_observed[id] <= TrackTimeoutSeconds]_vars

\* A track has been evicted by timeout; it was last detected more than
\* track_timeout_seconds ago and its history is still there.
ActiveIffRecentWitness ==
    \E id \in lost_tracks :
        /\ ~HasTrack(active_tracks, id)
        /\ now - last_observed[id] > TrackTimeoutSeconds
        /\ Len(track_history[id]) > 0

\* C9: update_tracks skips a malformed detection record (negative width or
\* height, confidence outside [0,1]): an id all of whose records in the frame
\* are malformed gets no new or changed track and no history sample, while
\* every well-formed record of the frame is ingested.
MalformedSkipped ==
    [][\A objs \in TrackFrames :
          UpdateTracks(Frame(objs)) =>
              \A i \in 1..Len(objs) :
                  LET id == objs[i].object_id
                  IN  IF \A j \in 1..Len(objs) :
                             objs[j].object_id = id => IsMalformed(objs[j])
                      THEN /\ DictGet(track_history', id, <<>>)
                                  = DictGet(track_history, id, <<>>)
                           /\ HasTrack(active_tracks', id) =>
                                  /\ HasTrack(active_tracks, id)
                                  /\ TrackOf(active_tracks', id) = TrackOf(active_tracks, id)
                      ELSE IsMalformed(objs[i]) \/
                               /\ HasTrack(active_tracks', id)
                               /\ Position(TrackInfo(objs[i], now, FrameNum))
                                      \in {track_history'[id][k] :
                                              k \in 1..Len(track_history'[id])}]_vars

(***************************************************************************)
(* Properties of the behaviour engine.                                     *)
(***************************************************************************)
\* Number of events of one type for one id in a list of events.
CountEvents(events, id, type) ==
    Cardinality({i \in 1..Len(events) :
                     events[i].tracking_id = id /\ events[i].event_type = type})

Emitted(id, type) == type \in DOMAIN last_emit[id]

\* C1: for an id observed only with confidence >= min_confidence and with no
\* gap above track_timeout_seconds, an analyze_frame call emits an
\* object_appeared event exactly when the track is in the store and no
\* object_appeared event was emitted for the id before: one event, in the
\* first call that finds the track, and never another.
AppearsOnce ==
    [][AnalyzeFrame =>
          \A id \in steady :
              LET n == CountEvents(emitted', id, "object_appeared")
              IN  /\ n <= 1
                  /\ n = 1 <=> /\ HasTrack(active_tracks, id)
                               /\ ~Emitted(id, "object_appeared")]_vars

\* A steadily observed track whose appearance was reported at an earlier
\* clock value has just been analysed again, more than debounce_seconds
\* later, without a second report.
AppearsOnceWitness ==
    \E id \in steady :
        /\ HasTrack(active_tracks, id)
        /\ Emitted(id, "object_appeared")
        /\ now - last_emit[id]["object_appeared"] > DebounceSeconds
        /\ id \in DOMAIN tracked_objects
        /\ tracked_objects[id].last_seen = now
        /\ CountEvents(emitted, id, "object_appeared") = 0

\* The last min_frames samples of a track's history.
Window(id, min_frames) == LastN(track_history[id], min_frames)

\* The last min_frames samples all lie within position_tolerance_pixels of
\* the first of them.
StaysPut(id, min_frames) ==
    LET w == Window(id, min_frames)
    IN  \A i \in 1..Len(w) :
            SqDist(w[i], w[1]) <= PositionTolerancePixels * PositionTolerancePixels

\* The last min_frames samples are min_frames in number and span at least
\* static_threshold_seconds.
SpansThreshold(id, min_frames) ==
    LET w == Window(id, min_frames)
    IN  /\ Len(w) = min_frames
        /\ w[Len(w)].timestamp - w[1].timestamp >= StaticThresholdSeconds

Confident(id) == TrackOf(active_tracks, id).confidence >= MinConfidence

EmittedWithin(id, type, seconds) ==
    Emitted(id, type) /\ now - last_emit[id][type] < seconds

\* C2: an analyze_frame call emits no object_static event for an id for which
\* one was emitted less than static_threshold_seconds ago; otherwise, for a
\* confidently detected track in the store whose last 30 (here
\* MinFramesStatic) samples stay within position_tolerance_pixels of the
\* first of them and span at least static_threshold_seconds, it emits
\* exactly one.
StaticOnce ==
    [][AnalyzeFrame =>
          \A id \in TrackKeys(active_tracks) :
              LET n == CountEvents(emitted', id, "object_static")
              IN  Confident(id) =>
                      IF EmittedWithin(id, "object_static", StaticThresholdSeconds)
                      THEN n = 0
                      ELSE StaysPut(id, MinFramesStatic)
                               /\ SpansThreshold(id, MinFramesStatic) => n = 1]_vars

\* The debounce interval the configuration gives each event type.
DebounceInterval(type) ==
    IF type = "object_static" THEN StaticThresholdSeconds ELSE DebounceSeconds

\* C10: an analyze_frame call emits an event of a type for an id only if the
\* previous emission of that type for that id was at least the debounce
\* interval of the type earlier.
DebounceSeparation ==
    [][AnalyzeFrame =>
          \A i \in 1..Len(emitted') :
              LET id   == emitted'[i].tracking_id
                  type == emitted'[i].event_type
              IN  ~EmittedWithin(id, type, DebounceInterval(type))]_vars

\* Among the last min_frames samples there is one farther than
\* position_tolerance_pixels from the first of them.
MovedAway(id, min_frames) ==
    LET w == Window(id, min_frames)
    IN  \E i \in 1..Len(w) :
            SqDist(w[i], w[1]) > PositionTolerancePixels * PositionTolerancePixels

Flagged(id) == id \in DOMAIN last_static_events

\* C3 as stated: whenever a track flagged static has moved away within its
\* last 10 (here MinFramesMoving) samples, analyze_frame emits exactly one
\* object_moving event for it and removes the id from last_static_events.
MovesOnceAsStated ==
    [][AnalyzeFrame =>
          \A id \in DOMAIN track_history :
              Flagged(id) /\ MovedAway(id, MinFramesMoving) =>
                  /\ CountEvents(emitted', id, "object_moving") = 1
                  /\ id \notin DOMAIN last_static_events']_vars

\* C3, amended: the same for a track that is in the store, was last detected
\* with confidence >= min_confidence and had no object_moving event emitted
\* less than debounce_seconds ago; a flagged track in the store whose last
\* detection has lower confidence gets no object_moving event and keeps its
\* flag.
MovesOnce ==
    [][AnalyzeFrame =>
          \A id \in TrackKeys(active_tracks) :
              Flagged(id) /\ MovedAway(id, MinFramesMoving) =>
                  IF Confident(id)
                  THEN ~EmittedWithin(id, "object_moving", DebounceSeconds) =>
                           /\ CountEvents(emitted', id, "object_moving") = 1
                           /\ id \notin DOMAIN last_static_events'
                  ELSE /\ CountEvents(emitted', id, "object_moving") = 0
                       /\ id \in DOMAIN last_static_events']_vars

\* An object_moving event has just been emitted for a track reported static
\* before, and the track is no longer flagged static.
MovesOnceWitness ==
    \E id \in TrackKeys(active_tracks) :
        /\ CountEvents(emitted, id, "object_moving") = 1
        /\ Emitted(id, "object_static")
        /\ ~Flagged(id)
        /\ MovedAway(id, MinFramesMoving)

\* The entries the three debounce maps hold for one id.
DebounceEntries(appearance, static, moving, id) ==
    <<DictGet(appearance, id, -1), DictGet(static, id, -1), DictGet(moving, id, -1)>>

NoDebounceEntries == <<-1, -1, -1>>

AllReturn(callbacks) == [i \in 1..Len(callbacks) |-> "returns"]

\* The debounce stamp an emitted event leaves behind is the time of the call
\* (an object_static stamp is removed again when the same call emits
\* object_moving for the id).
StampWritten(event, events, appearance, static, moving, current_time) ==
    LET id == event.tracking_id
    IN  CASE event.event_type = "object_appeared" ->
                 DictGet(appearance, id, -1) = current_time
          [] event.event_type = "object_static" ->
                 \/ DictGet(static, id, -1) = current_time
                 \/ CountEvents(events, id, "object_moving") > 0
          [] event.event_type = "object_moving" ->
                 DictGet(moving, id, -1) = current_time

\* C8: whichever registered callbacks raise, an analyze_frame call passes
\* every event it emits to every registered callback, retains the event in
\* recent_events, writes its debounce stamp, runs to its end (every track in
\* the store gets last_seen = now), and leaves the analyzer in the state it
\* would have left with callbacks that all return.
CallbackIsolation ==
    [][AnalyzeFrame =>
          LET quiet == AnalyzeFrom(BAWith(AllReturn(event_callbacks)))
          IN  /\ \A i \in 1..Len(event_callbacks) : invoked'[i] = emitted'
              /\ Len(emitted') <= MaxEvents => IsSuffix(emitted', recent_events')
              /\ \A k \in 1..Len(emitted') :
                     StampWritten(emitted'[k], emitted', last_appearance_events',
                                  last_static_events', last_moving_events', now)
              /\ \A id \in TrackKeys(active_tracks) :
                     /\ id \in DOMAIN tracked_objects'
                     /\ tracked_objects'[id].last_seen = now
              /\ emitted' = quiet.emitted
              /\ <<tracked_objects', recent_events', last_appearance_events',
                   last_static_events', last_moving_events'>>
                     = <<quiet.tracked_objects, quiet.recent_events,
                         quiet.last_appearance_events, quiet.last_static_events,
                         quiet.last_moving_events>>]_vars

\* A callback that raises is registered before one that returns, and an
\* analyze_frame call later than the one that reported the appearance has
\* just emitted an object_static event and passed it to both.
CallbackIsolationWitness ==
    /\ Len(event_callbacks) = 2
    /\ event_callbacks[1] = "raises"
    /\ event_callbacks[2] = "returns"
    /\ Len(emitted) = 1
    /\ emitted[1].event_type = "object_static"
    /\ invoked[1] = emitted
    /\ invoked[2] = emitted
    /\ recent_events[Len(recent_events)] = emitted[1]
    /\ last_emit[emitted[1].tracking_id]["object_appeared"] < now

(***************************************************************************)
(* Events as snapshots.                                                    *)
(***************************************************************************)
\* The fields of an event that are taken from a track are those of track_info.
TakenFrom(event, track_info) ==
    /\ event.tracking_id = track_info.tracking_id
    /\ event.class_name = ClassName(track_info.class_id)
    /\ event.position = [x |-> track_info.center.x, y |-> track_info.center.y]
    /\ event.confidence = track_info.confidence
    /\ event.metadata.bbox = track_info.bbox
    /\ event.metadata.frame_number = track_info.frame_number

\* C11: every event a call emits carries the tracking id, class name,
\* position, confidence, bounding box and frame number the track has in the
\* store at that call, and no update_tracks, cleanup_old_history or
\* analyze_frame call changes an event that is retained: what is retained
\* after a call is the newest end of what was retained before, followed by the
\* events the call emitted.
EventSnapshot ==
    [][/\ \A k \in 1..Len(emitted') :
              /\ HasTrack(active_tracks, emitted'[k].tracking_id)
              /\ TakenFrom(emitted'[k],
                           TrackOf(active_tracks, emitted'[k].tracking_id))
       /\ IsSuffix(recent_events', recent_events \o emitted')]_vars

\* An appearance reported at (100,100) is retained with the box and frame
\* number of that time, while the track has since been detected at (500,100)
\* in a later frame.
EventSnapshotWitness ==
    \E i \in 1..Len(recent_events) :
        LET event == recent_events[i]
        IN  /\ event.event_type = "object_appeared"
            /\ event.position.x = 100
            /\ event.metadata.bbox.left = 90
            /\ HasTrack(active_tracks, event.tracking_id)
            /\ TrackOf(active_tracks, event.tracking_id).center.x = 500
            /\ TrackOf(active_tracks, event.tracking_id).frame_number
                   > event.metadata.frame_number

EventTypes == {"object_appeared", "object_static", "object_moving"}

WellFormed(event) ==
    /\ event.event_type \in EventTypes
    /\ "bbox" \in DOMAIN event.metadata
    /\ "frame_number" \in DOMAIN event.metadata
    /\ "duration" \in DOMAIN event.metadata <=> event.event_type = "object_static"

\* C12: every event emitted, retained or passed to a callback has one of the
\* types object_appeared, object_static, object_moving and carries bbox and
\* frame_number in its metadata; its metadata has a duration exactly when its
\* type is object_static.
EventsWellFormed ==
    /\ \A k \in 1..Len(emitted) : WellFormed(emitted[k])
    /\ \A k \in 1..Len(recent_events) : WellFormed(recent_events[k])
    /\ \A i \in 1..Len(invoked) :
           \A k \in 1..Len(invoked[i]) : WellFormed(invoked[i][k])

\* An object_static event with its duration and an object_moving event are
\* both retained.
EventsWellFormedWitness ==
    \E i, j \in 1..Len(recent_events) :
        /\ recent_events[i].event_type = "object_static"
        /\ recent_events[i].metadata.duration >= StaticThresholdSeconds
        /\ recent_events[j].event_type = "object_moving"
        /\ DOMAIN recent_events[j].metadata = {"bbox", "frame_number"}

(***************************************************************************)
(* Properties of the queries of the track store.                           *)
(***************************************************************************)
\* Every one of the last min_frames samples of the id lies within
\* threshold_pixels of the first of them.
AllWithin(id, threshold_pixels, min_frames) ==
    LET w == Window(id, min_frames)
    IN  \A i \in 1..Len(w) :
            SqDist(w[i], w[1]) <= threshold_pixels * threshold_pixels

\* C13: is_track_static(id, tolerance, min_frames) returns False when the id
\* has no history or fewer than min_frames samples, and otherwise returns
\* True exactly when every sample among the last min_frames lies at Euclidean
\* distance at most tolerance from the first sample of that window.
StaticByFixedOrigin ==
    [][\A id \in Ids, threshold_pixels \in Tolerances, min_frames \in WindowSizes :
          QueryTrack(id, threshold_pixels, min_frames) =>
              query'.track_static =
                  IF id \notin DOMAIN track_history THEN FALSE
                  ELSE IF Len(track_history[id]) < min_frames THEN FALSE
                  ELSE AllWithin(id, threshold_pixels, min_frames)]_vars

\* is_track_static has just returned True for a window of three samples the
\* last two of which are farther apart than the tolerance, and one of which
\* is exactly the tolerance away from the first.
StaticByFixedOriginWitness ==
    /\ query # None
    /\ query.track_static
    /\ query.min_frames = MinFramesStatic
    /\ LET w == LastN(query.track_history, query.min_frames)
           tolerance == query.threshold_pixels * query.threshold_pixels
       IN  /\ Len(w) = query.min_frames
           /\ SqDist(w[Len(w)], w[Len(w) - 1]) > tolerance
           /\ \E i \in 1..Len(w) : SqDist(w[i], w[1]) = tolerance

\* C20: an analyze_frame call emits no event of any type for a track whose
\* confidence at the call is below min_confidence.
NoEventBelowMinConfidence ==
    [][AnalyzeFrame =>
          \A id \in TrackKeys(active_tracks) :
              TrackOf(active_tracks, id).confidence < behavior_config.min_confidence =>
                  \A k \in 1..Len(emitted') : emitted'[k].tracking_id # id]_vars

\* A track first detected with confidence 0.3 has just been analysed: it is
\* among the tracked objects and no event has ever been emitted for it.
NoEventBelowMinConfidenceWitness ==
    \E id \in DOMAIN tracked_objects :
        /\ tracked_objects[id].confidence < behavior_config.min_confidence
        /\ tracked_objects[id].last_seen = now
        /\ HasTrack(active_tracks, id)
        /\ DOMAIN last_emit[id] = {}
        /\ emitted = <<>>

\* The id was evicted by timeout and its history has not been pruned.
EvictedWithHistory(id) ==
    /\ id \in lost_tracks
    /\ ~HasTrack(active_tracks, id)
    /\ id \in DOMAIN track_history

\* C14: when an id that was evicted by timeout and whose history has not been
\* pruned is detected again, update_tracks keeps the retained history and
\* appends the new sample to it (up to the history cap).
HistoryKeptOnReturn ==
    [][\A objs \in HistoryFrames :
          UpdateTracks(Frame(objs)) =>
              \A id \in CurrentTrackIds(objs) :
                  EvictedWithHistory(id) =>
                      track_history'[id]
                          = LimitHistory(track_history[id] \o Observed(objs, id))]_vars

\* The id has history, is not an active track, and was last detected more
\* than max_age_seconds ago.
Stale(id, max_age_seconds) ==
    /\ id \in DOMAIN track_history
    /\ ~HasTrack(active_tracks, id)
    /\ now - last_observed[id] > max_age_seconds

\* C15: cleanup_old_history(max_age) removes the history of exactly the ids
\* that are not in active_tracks and whose last sample is older than max_age;
\* the history of an active track stays, and active_tracks and every other
\* history are unchanged.
HistoryPruned ==
    [][\A max_age_seconds \in MaxAges :
          CleanupHistory(max_age_seconds) =>
              /\ DOMAIN track_history'
                     = {id \in DOMAIN track_history : ~Stale(id, max_age_seconds)}
              /\ \A id \in DOMAIN track_history' :
                     track_history'[id] = track_history[id]
              /\ \A id \in TrackKeys(active_tracks) : id \in DOMAIN track_history'
              /\ active_tracks' = active_tracks]_vars

\* The history of an evicted id has been removed, while an active track
\* whose last sample is older than the age the call was made with keeps its
\* history.
HistoryPrunedWitness ==
    \E id, other \in DOMAIN last_observed :
        /\ id \notin DOMAIN track_history
        /\ ~HasTrack(active_tracks, id)
        /\ HasTrack(active_tracks, other)
        /\ now - last_observed[other] > InactiveGraceSeconds
        /\ Len(track_history[other]) > 0

\* C16: while the pipeline keeps processing frames, no id stays for ever
\* evicted with its history retained: the history of an id that is not
\* detected again is eventually removed from track_history.
HistoryEventuallyPruned ==
    \A id \in Ids : []<>(~EvictedWithHistory(id))

\* C19: the queries get_track_info, get_track_duration, is_track_static and
\* get_track_history change none of active_tracks, track_history and
\* lost_tracks, and on an id that was never detected they return None, None,
\* False and the empty list.
UnknownIdNotFound ==
    [][\A id \in Ids, threshold_pixels \in Tolerances, min_frames \in WindowSizes :
          QueryTrack(id, threshold_pixels, min_frames) =>
              /\ active_tracks' = active_tracks
              /\ track_history' = track_history
              /\ lost_tracks' = lost_tracks
              /\ id \notin DOMAIN last_observed =>
                     /\ query'.track_info = None
                     /\ query'.track_duration = -1
                     /\ query'.track_static = FALSE
                     /\ query'.track_history = <<>>]_vars

\* The queries have just been made on an id that was never detected, while
\* another track is active with a full history.
UnknownIdNotFoundWitness ==
    /\ query # None
    /\ query.tracking_id \notin DOMAIN last_observed
    /\ query.track_info = None
    /\ query.track_history = <<>>
    /\ \E other \in TrackKeys(active_tracks) :
           Len(track_history[other]) = MaxTrackHistory

(***************************************************************************)
(* Properties of the configuration.                                        *)
(***************************************************************************)
\* C17: after a successful reload of a changed configuration the running
\* BehaviorAnalyzer works with the new static_threshold_seconds,
\* position_tolerance_pixels, debounce_seconds and min_confidence.
ReloadReachesAnalyzer ==
    [][(ReloadConfig /\ config # None /\ config' # config) =>
           behavior_config' = get_behavior_config(config')]_vars

\* The values the pydantic model admits for each key of the behavior section.
AdmittedValues ==
    [static_threshold_seconds  |-> 1..300,
     position_tolerance_pixels |-> 1..100,
     debounce_seconds          |-> 1..30,
     min_confidence            |-> 0..10]

\* The file is missing, cannot be parsed, or holds a value out of range.
Rejected(file) ==
    \/ file.kind \in {"missing", "unparsable"}
    \/ /\ file.kind = "yaml"
       /\ \E key \in DOMAIN file.data.behavior :
              file.data.behavior[key] \notin AdmittedValues[key]

\* C18: when _load_config meets a missing file, unparsable YAML or an
\* out-of-range value, it returns False, leaves ConfigManager.config as it
\* was and notifies no change listener; when that happens on the initial
\* load, config is None and the getters return {}.
FailedLoadKeepsConfig ==
    /\ Rejected(config_file) =>
           /\ config = None
           /\ get_behavior_config(config) = EmptyDict
           /\ get_full_config(config) = EmptyDict
    /\ [][(ReloadConfig /\ Rejected(config_file)) =>
              /\ loaded' = <<FALSE>>
              /\ config' = config
              /\ notified' = <<>>
              /\ config = None =>
                     /\ get_behavior_config(config') = EmptyDict
                     /\ get_full_config(config') = EmptyDict]_vars

\* A reload has just failed on a file with min_confidence 1.5, and the
\* configuration loaded before, which is not the default one, is still in
\* place.
FailedLoadKeepsConfigWitness ==
    /\ loaded = <<FALSE>>
    /\ config_file = OverConfidentFile
    /\ config # None
    /\ config.behavior # BehaviorDefaults
    /\ notified = <<>>

(***************************************************************************)
(* Properties of the event dispatcher.                                     *)
(***************************************************************************)
\* C21: whatever the worker thread is doing (waiting on the queue, inside an
\* HTTP or an MQTT delivery attempt, ended) and however many events wait on
\* the queue, a dispatch_event call the frame thread has entered can take its
\* one step, the enqueue, and return: it waits for no delivery.
DispatchNeverWaits == frame_call # None => ENABLED CompleteDispatch

\* A dispatch_event call entered while the worker is inside a delivery attempt
\* with an earlier event still waiting on the queue.
DispatchNeverWaitsWitness ==
    /\ frame_call # None
    /\ worker_pc \in {"http", "mqtt"}
    /\ Len(event_queue) >= 1

(***************************************************************************)
(* Properties of an object that leaves.                                    *)
(***************************************************************************)
\* The id is in no current track, not in tracked_objects and in none of the
\* three debounce maps.
Absent(id) ==
    /\ ~HasTrack(active_tracks, id)
    /\ id \notin DOMAIN tracked_objects
    /\ DebounceEntries(last_appearance_events, last_static_events,
                       last_moving_events, id) = NoDebounceEntries

\* C22: an id that is no longer observed while update_tracks and analyze_frame
\* keep being called on later frames is eventually absent from active_tracks,
\* from tracked_objects and from the three debounce maps, for good; and an
\* absent id comes back into any of them only in an update_tracks call on a
\* frame that holds it.
LeavesForGood ==
    /\ \A id \in Ids : <>[]Absent(id)
    /\ [][\A id \in Ids :
             Absent(id) /\ ~Absent(id)' =>
                 /\ HasTrack(active_tracks', id)
                 /\ TrackOf(active_tracks', id).timestamp = now'
                 /\ id \notin DOMAIN tracked_objects']_vars

\* Object 1 was reported as appeared, static and moving, was evicted by the
\* timeout, and is gone from the tracks, the object states and the debounce
\* maps.
LeavesForGoodWitness ==
    /\ Absent(1)
    /\ 1 \in lost_tracks
    /\ Emitted(1, "object_appeared")
    /\ Emitted(1, "object_static")
    /\ Emitted(1, "object_moving")

(***************************************************************************)
(* Properties of the events of one analyze_frame call.                     *)
(***************************************************************************)
\* C23: no analyze_frame call emits both an object_static and an
\* object_moving event for the same id.
NeverStaticAndMoving ==
    [][AnalyzeFrame =>
          \A id \in Ids :
              ~ /\ CountEvents(emitted', id, "object_static") > 0
                /\ CountEvents(emitted', id, "object_moving") > 0]_vars

\* C24: object_moving is emitted for an id only while the id is flagged
\* static.  A step emits at most one object_moving event for an id, and only
\* if the id carried the flag before the step or got it from an object_static
\* event emitted earlier in the same step; the emission takes the flag away;
\* and an id gets the flag only in a step that emits object_static for it.
\* Hence no object_moving comes before the first object_static of the id, and
\* between two object_moving events of the id there is an object_static.
MovingOnlyWhileFlagged ==
    [][\A id \in Ids :
          /\ CountEvents(emitted', id, "object_moving") > 0 =>
                 /\ CountEvents(emitted', id, "object_moving") = 1
                 /\ \/ Flagged(id)
                    \/ \E i, j \in 1..Len(emitted') :
                           /\ i < j
                           /\ emitted'[i].tracking_id = id
                           /\ emitted'[i].event_type = "object_static"
                           /\ emitted'[j].tracking_id = id
                           /\ emitted'[j].event_type = "object_moving"
                 /\ ~Flagged(id)'
          /\ ~Flagged(id) /\ Flagged(id)' =>
                 CountEvents(emitted', id, "object_static") = 1]_vars

\* An object_moving event has just been emitted for an id that an earlier
\* analyze_frame call had flagged static.
MovingOnlyWhileFlaggedWitness ==
    \E id \in Ids :
        /\ CountEvents(emitted, id, "object_moving") = 1
        /\ CountEvents(emitted, id, "object_static") = 0
        /\ Emitted(id, "object_static")
        /\ last_emit[id]["object_static"] < now

\* C25: when an analyze_frame call emits object_static for an id, the window
\* of samples that passed the static test spans at least
\* static_threshold_seconds, and metadata.duration of the event is the time
\* that window spans.
StaticMeansStill ==
    [][AnalyzeFrame =>
          \A i \in 1..Len(emitted') :
              emitted'[i].event_type = "object_static" =>
                  LET w == Window(emitted'[i].tracking_id, MinFramesStatic)
                  IN  /\ SpansThreshold(emitted'[i].tracking_id, MinFramesStatic)
                      /\ emitted'[i].metadata.duration
                             = w[Len(w)].timestamp - w[1].timestamp]_vars

\* C26: an analyze_frame call emits object_moving for an id only if the
\* history of the track holds at least 10 (here MinFramesMoving) samples and
\* one of the last 10 lies more than position_tolerance_pixels from the first
\* of them.
MovingMeansDisplaced ==
    [][AnalyzeFrame =>
          \A id \in Ids :
              CountEvents(emitted', id, "object_moving") > 0 =>
                  /\ id \in DOMAIN track_history
                  /\ Len(track_history[id]) >= MinFramesMoving
                  /\ MovedAway(id, MinFramesMoving)]_vars

\* C27: every object_static or object_moving event of an id is preceded by an
\* object_appeared event of that id emitted since the id last entered
\* tracked_objects.  Checked in the weaker form it implies: when an
\* analyze_frame call emits object_static or object_moving for an id, an
\* object_appeared event has been emitted for the id, in that call or before.
AppearedBeforeStaticOrMoving ==
    [][AnalyzeFrame =>
          \A id \in Ids :
              \/ CountEvents(emitted', id, "object_static") > 0
              \/ CountEvents(emitted', id, "object_moving") > 0
              => "object_appeared" \in DOMAIN last_emit'[id]]_vars

\* C28: an id that is detected in every frame at one place with confidence
\* >= min_confidence, the frames arriving at a fixed interval, is eventually
\* reported by an object_static event.
StillEventuallyStatic == <>Emitted(1, "object_static")

\* C29: at the end of every analyze_frame call every id that has an entry in
\* last_appearance_events, last_static_events or last_moving_events is a key
\* of tracked_objects.
DebounceKeysTracked ==
    [][AnalyzeFrame =>
          (DOMAIN last_appearance_events') \cup (DOMAIN last_static_events')
              \cup (DOMAIN last_moving_events') \subseteq DOMAIN tracked_objects']_vars

\* An object that was flagged static and never reported moving has timed out
\* and has been dropped from tracked_objects, within one frame interval of
\* its object_static event.
DebounceKeysTrackedWitness ==
    /\ Emitted(1, "object_static")
    /\ ~Emitted(1, "object_moving")
    /\ 1 \in lost_tracks
    /\ 1 \notin DOMAIN tracked_objects
    /\ now - last_emit[1]["object_static"] <= Tick

(***************************************************************************)
(* Properties of get_track_duration.                                       *)
(***************************************************************************)
\* C30: get_track_duration(id) returns None (-1 here) when the id has no
\* history, 0 when its history holds fewer than two samples, and otherwise
\* the timestamp of the newest retained sample, which is the time the id was
\* last observed, minus that of the oldest retained one; the clock never
\* going back, a result that is not None is never negative.
DurationIsRetainedSpan ==
    [][\A tracking_id \in Ids, threshold_pixels \in Tolerances, min_frames \in WindowSizes :
          QueryTrack(tracking_id, threshold_pixels, min_frames) =>
              LET history == DictGet(track_history, tracking_id, <<>>)
                  oldest  == history[1].timestamp
              IN  /\ tracking_id \notin DOMAIN track_history
                         <=> query'.track_duration = -1
                  /\ tracking_id \in DOMAIN track_history =>
                         /\ query'.track_duration >= 0
                         /\ Len(history) < 2 => query'.track_duration = 0
                         /\ Len(history) >= 2 =>
                                query'.track_duration = last_observed[tracking_id] - oldest]_vars

\* A query has returned a positive duration for a history that is as long as
\* the cap allows and whose newest sample is older than the current time.
DurationIsRetainedSpanWitness ==
    /\ query # None
    /\ query.track_duration > 0
    /\ Len(query.track_history) = MaxTrackHistory
    /\ last_observed[query.tracking_id] < now

(***************************************************************************)
(* Properties of update_tracks on a whole frame.                           *)
(***************************************************************************)
\* The detections of objs in every order.
Orderings(objs) ==
    {[i \in 1..Len(objs) |-> objs[p[i]]] : p \in Permutations(1..Len(objs))}

\* The key-value pairs of active_tracks, whatever the insertion order.
Items(tracks) == {tracks[i] : i \in 1..Len(tracks)}

\* The TrackingManager state update_tracks leaves on a frame holding objs.
StoreAfterFrame(objs) ==
    CheckLostTracks(ProcessObjects(TM, objs, 1, now, FrameNum), CurrentTrackIds(objs), now)

\* C31: for a frame of detections with pairwise distinct ids, update_tracks
\* leaves the same active_tracks, track_history and lost_tracks whatever the
\* order of the detections in the frame; an id that is not in the frame
\* keeps its history, and keeps its track unless its last detection is more
\* than track_timeout_seconds old, in which case it moves to lost_tracks.
OrderIrrelevant ==
    [][\A objs \in OrderFrames :
          UpdateTracks(Frame(objs)) =>
              /\ \A other \in Orderings(objs) :
                     /\ Items(StoreAfterFrame(other).active_tracks) = Items(active_tracks')
                     /\ TrackKeys(active_tracks') = TrackKeys(StoreAfterFrame(other).active_tracks)
                     /\ StoreAfterFrame(other).track_history = track_history'
                     /\ StoreAfterFrame(other).lost_tracks = lost_tracks'
              /\ \A id \in (DOMAIN track_history) \ CurrentTrackIds(objs) :
                     /\ track_history'[id] = track_history[id]
                     /\ HasTrack(active_tracks, id) =>
                            IF now - TrackOf(active_tracks, id).timestamp > TrackTimeoutSeconds
                            THEN ~HasTrack(active_tracks', id) /\ id \in lost_tracks'
                            ELSE /\ HasTrack(active_tracks', id)
                                 /\ TrackOf(active_tracks', id) = TrackOf(active_tracks, id)
                                 /\ (id \in lost_tracks') = (id \in lost_tracks)]_vars

\* Both ids have just been detected in one frame, each for the second time at
\* least, object 2 having entered the store before object 1.
OrderIrrelevantWitness ==
    /\ Len(active_tracks) = 2
    /\ active_tracks[1].tracking_id = 2
    /\ \A id \in Ids :
           /\ TrackOf(active_tracks, id).timestamp = now
           /\ Len(track_history[id]) >= 2

(***************************************************************************)
(* Properties of get_recent_events.                                        *)
(***************************************************************************)
\* C32: for every limit >= 0, get_recent_events(limit) returns the
\* min(limit, n) newest of the n retained events, in emission order, and
\* leaves recent_events as it is.
RecentEventsLimited ==
    [][\A limit \in Limits :
          GetRecentEvents(limit) =>
              /\ Len(query'.recent_events) = Min(limit, Len(recent_events))
              /\ IsSuffix(query'.recent_events, recent_events)
              /\ recent_events' = recent_events]_vars

\* C33: a call of shutdown() returns, whatever is queued and whatever the
\* worker thread is doing when it is made.
ShutdownTerminates == (shutdown_pc = "join_worker") ~> (shutdown_pc = "done")

IsPrefix(s, t) == Len(s) <= Len(t) /\ s = SubSeq(t, 1, Len(s))

\* C34: the events handed to _process_event are, in order and each once, the
\* events passed to dispatch_event: at every moment the former sequence is a
\* prefix of the latter; and the n-th event dispatched is eventually handed
\* to _process_event unless the dispatcher is shut down.
ProcessedOnceInOrder ==
    /\ []IsPrefix(processed, dispatched)
    /\ \A n \in 1..MaxDispatched :
           (Len(dispatched) >= n) ~> (Len(processed) >= n \/ stop_worker)

\* Every event dispatched has been handed to _process_event, events of both
\* kinds among them, and shutdown() has not been called.
ProcessedOnceInOrderWitness ==
    /\ ~stop_worker
    /\ Len(processed) = MaxDispatched
    /\ \E i, j \in 1..Len(processed) : processed[i] # processed[j]
    /\ worker_pc = "get"

\* The events taken from the queue whose _process_event call has not returned.
InProcessing == IF worker_event = None THEN 0 ELSE 1

FullyProcessed == Len(processed) - InProcessing

\* The events whose HTTP delivery attempt has finished.
HttpAttempted == Len(processed) - (IF worker_pc = "http" THEN 1 ELSE 0)

\* The events counted by dispatch_event and not yet put on the queue.
BeingQueued == IF frame_call = None THEN 0 ELSE 1

DeliveriesCounted ==
    /\ delivery.http =>
           stats.events_sent_http + stats.events_failed_http = HttpAttempted
    /\ ~delivery.http => stats.events_sent_http + stats.events_failed_http = 0
    /\ delivery.mqtt =>
           stats.events_sent_mqtt + stats.events_failed_mqtt = FullyProcessed
    /\ ~delivery.mqtt => stats.events_sent_mqtt + stats.events_failed_mqtt = 0

WatchedContents ==
    {[kind |-> "unparsable"], DefaultFile, ChangedFile, OverConfidentFile}

\* The file is rewritten: the observer gets a FileModifiedEvent for it.
ModifyWatchedFile ==
    \E file \in WatchedContents :
        /\ file # config_file
        /\ modified_events < MaxModifiedEvents
        /\ config_file' = file
        /\ modified_events' = modified_events + 1
        /\ NothingNotified
        /\ NothingEmitted(event_callbacks)
        /\ UNCHANGED <<now, tmvars, bavars, event_callbacks, call_parity,
                       config, behavior_config, last_modified_time,
                       change_callbacks, dispvars, streamvars, savervars>>

\* The debounce test of ConfigFileWatcher.on_modified.
PastDebounce(current_time, last_time) ==
    current_time - last_time > WatcherDebounceSeconds

\* ConfigFileWatcher.on_modified on a FileModifiedEvent for the file, and
\* ConfigManager._on_config_file_modified when it is called back.
OnModified ==
    /\ modified_events > 0
    /\ modified_events' = modified_events - 1
    /\ IF PastDebounce(now, last_modified_time)
       THEN /\ last_modified_time' = now
            /\ LoadConfigAndNotify
       ELSE /\ loaded' = <<>>
            /\ notified' = <<>>
            /\ UNCHANGED <<last_modified_time, config, behavior_config>>
    /\ query' = None
    /\ CallMade
    /\ NothingEmitted(event_callbacks)
    /\ UNCHANGED <<now, tmvars, bavars, event_callbacks, config_file,
                   change_callbacks, dispvars, streamvars, savervars>>

\* ConfigManager.add_change_listener with a listener that returns or one
\* that raises.
AddChangeListener(callback) ==
    /\ Len(change_callbacks) < MaxListeners
    /\ change_callbacks' = Append(change_callbacks, callback)
    /\ NothingNotified
    /\ CallMade
    /\ NothingEmitted(event_callbacks)
    /\ UNCHANGED <<now, tmvars, bavars, event_callbacks, config_file, config,
                   behavior_config, last_modified_time, modified_events,
                   dispvars, streamvars, savervars>>

RegisterListener == \E callback \in {"returns", "raises"} : AddChangeListener(callback)

InitWatch ==
    /\ InitPipeline
    /\ \E file \in FileContents : StartWith(file)
    /\ InitDispatcher(TRUE, TRUE)

NextWatch == AdvanceClock \/ ModifyWatchedFile \/ OnModified \/ RegisterListener

\* The observer thread hands over every event it has.
SpecWatch == InitWatch /\ [][NextWatch]_vars /\ WF_vars(OnModified)

\* C36: once a ConfigManager with a registered listener is constructed,
\* a modification that leaves a valid configuration in the file is
\* eventually followed by a reload: as long as the file keeps that content,
\* the configuration loaded eventually is the one in the file.
ModificationReloaded ==
    \A file \in {DefaultFile, ChangedFile} :
        (config_file = file /\ modified_events > 0)
            ~> (config = AppConfig(file.data) \/ config_file # file)

\* C37: every reload that succeeds calls each registered change listener
\* exactly once, in order, with the configuration just loaded, whether
\* listeners raise or not, and leaves that configuration in place.
ListenersNotifiedOnce ==
    [][(OnModified /\ loaded' = <<TRUE>>) =>
           /\ config' = AppConfig(config_file.data)
           /\ notified' = [i \in 1..Len(change_callbacks) |->
                               [listener |-> i, config |-> config']]]_vars

(***************************************************************************)
(* SpecStream: an RTSPStreamManager with max_reconnect_attempts anything   *)
(* from -1 to MaxAttempts, monitoring started and stopped at any time,     *)
(* frames arriving or not while the clock advances, and callbacks that     *)
(* return or raise.                                                        *)
(***************************************************************************)
InitStreamRun ==
    /\ InitAnalysis
    /\ \E max_attempts \in -1..MaxAttempts : InitStream(max_attempts)
    /\ InitSaver(DefaultFramesPerHour, FALSE)
    /\ StartWith(DefaultFile)
    /\ InitDispatcher(TRUE, TRUE)

MonitorThread == MonitorCycle \/ MonitorWake \/ MonitorExit

NextStream ==
    \/ AdvanceClock
    \/ StartMonitoring
    \/ StopMonitoringThread
    \/ UpdateFrameTime
    \/ MonitorThread

SpecStream == InitStreamRun /\ [][NextStream]_vars

\* C38: with max_reconnect_attempts = N >= 0, reconnect_count and the
\* number of connection attempts made never exceed N; with N = -1, every
\* monitoring cycle that finds the stream disconnected makes an attempt.
ReconnectsBounded ==
    /\ [](max_reconnect_attempts >= 0 =>
              /\ reconnect_count <= max_reconnect_attempts
              /\ attempts <= max_reconnect_attempts)
    /\ [][(MonitorCycle /\ max_reconnect_attempts = -1 /\ ~is_connected) =>
              attempts' = attempts + 1]_vars

\* The limit of two attempts is used up, the stream is disconnected again,
\* and a monitoring cycle has passed without an attempt.
ReconnectsBoundedWitness ==
    /\ max_reconnect_attempts = MaxAttempts
    /\ attempts = MaxAttempts
    /\ ~is_connected
    /\ last_frame_time = -1
    /\ monitor_pc = "sleep"

(***************************************************************************)
(* SpecSaver: a FrameSaver with max_frames_per_hour from 1 to              *)
(* MaxFramesPerHour, in detection-only mode or not, fed frames with and    *)
(* without detections at any time while the worker saves at its own pace,  *)
(* over a little more than an hour.                                        *)
(***************************************************************************)
InitSaverRun ==
    /\ InitAnalysis
    /\ InitStream(-1)
    /\ \E max_frames \in 1..MaxFramesPerHour, detection_only \in BOOLEAN :
           InitSaver(max_frames, detection_only)
    /\ StartWith(DefaultFile)
    /\ InitDispatcher(TRUE, TRUE)

\* More than an hour passes at once.
HourPasses ==
    /\ now <= Epoch + MaxTicks * Tick
    /\ now' = now + HourSeconds + Tick
    /\ NothingEmitted(event_callbacks)
    /\ NothingNotified
    /\ UNCHANGED <<tmvars, bavars, event_callbacks, call_parity, cfgvars,
                   dispvars, streamvars, savervars>>

FeedSaverFrame == \E has_detections \in BOOLEAN : ProcessFrameMetadata(has_detections)

SaverWorker == \E saved \in BOOLEAN : SaverProcessFrame(saved)

NextSaver == AdvanceClock \/ HourPasses \/ FeedSaverFrame \/ SaverWorker

SpecSaver == InitSaverRun /\ [][NextSaver]_vars

\* C39: between two resets of the hourly counter the worker saves at most
\* max_frames_per_hour frames, however the calls of process_frame_metadata
\* and the worker interleave.
SavesWithinHourlyLimit == frames_saved <= max_frames_per_hour

====
